---- MODULE Spec2Model ----
(***************************************************************************)
(* simple-bundler: the cart expansion transform (cartTransformRun) and the *)
(* variant mapper (syncComponentsMetafields and its siblings).             *)
(*                                                                         *)
(* Strings are sequences of segments, so that String.startsWith is a real  *)
(* prefix test; a JSON text is a sequence of tokens, so that JSON.parse    *)
(* and JSON.stringify are a real parser and a real printer.                *)
(***************************************************************************)
EXTENDS Integers, Sequences, FiniteSets, TLC

\* ------------------------------------------------------------------ bounds
MaxLines == 2    \* lines in a cart snapshot
MaxQty == 2      \* quantity of a cart line
MaxIds == 2      \* elements of a JSON array found as mapping payload
MaxOther == 2    \* calls on other carts between two calls on the same cart
MaxVariants == 2 \* variants of a product with a Color option

\* ----------------------------------------------------------------- strings
startsWith(s, prefix) ==
    /\ Len(s) >= Len(prefix)
    /\ SubSeq(s, 1, Len(prefix)) = prefix

Gid(type, n) == <<"gid://", "shopify/", type, n>>

\* ids that may be found inside a mapping payload
V1 == Gid("ProductVariant/", "1")
V2 == Gid("ProductVariant/", "2")
P1 == Gid("Product/", "1")          \* a global id of another entity type
X1 == <<"ProductVariant/", "1">>    \* no gid:// prefix at all
\* the bundle variants a cart line may name
BundleVariantIds == {Gid("ProductVariant/", "91")}
LineId(i) == Gid("CartLine/", ToString(i))

\* -------------------------------------------------------------------- JSON
\* values
StrV(s) == [k |-> "string", s |-> s, items |-> <<>>]
NumV == [k |-> "number", s |-> <<>>, items |-> <<>>]
NullV == [k |-> "null", s |-> <<>>, items |-> <<>>]
ObjV == [k |-> "object", s |-> <<>>, items |-> <<>>]
ArrV(items) == [k |-> "array", s |-> <<>>, items |-> items]
\* tokens of a text
Tok(t) == [t |-> t, s |-> <<>>]
StrTok(s) == [t |-> "str", s |-> s]

RECURSIVE JoinItems(_, _)
RECURSIVE stringify(_)
\* JSON.stringify
stringify(v) ==
    CASE v.k = "string" -> <<StrTok(v.s)>>
      [] v.k = "number" -> <<Tok("7")>>
      [] v.k = "null" -> <<Tok("null")>>
      [] v.k = "object" -> <<Tok("{"), Tok("}")>>
      [] v.k = "array" -> <<Tok("[")>> \o JoinItems(v.items, 1) \o <<Tok("]")>>
JoinItems(items, i) ==
    IF i > Len(items) THEN <<>>
    ELSE stringify(items[i])
           \o (IF i < Len(items) THEN <<Tok(",")>> ELSE <<>>)
           \o JoinItems(items, i + 1)

SyntaxError == [ok |-> FALSE, v |-> NullV, next |-> 0]
RECURSIVE ParseValue(_, _)
RECURSIVE ParseItems(_, _, _)
ParseValue(toks, i) ==
    IF i > Len(toks) THEN SyntaxError
    ELSE LET t == toks[i] IN
      CASE t.t = "str" -> [ok |-> TRUE, v |-> StrV(t.s), next |-> i + 1]
        [] t.t = "7" -> [ok |-> TRUE, v |-> NumV, next |-> i + 1]
        [] t.t = "null" -> [ok |-> TRUE, v |-> NullV, next |-> i + 1]
        [] t.t = "{" ->
             IF i + 1 <= Len(toks) /\ toks[i + 1].t = "}"
             THEN [ok |-> TRUE, v |-> ObjV, next |-> i + 2]
             ELSE SyntaxError
        [] t.t = "[" ->
             IF i + 1 <= Len(toks) /\ toks[i + 1].t = "]"
             THEN [ok |-> TRUE, v |-> ArrV(<<>>), next |-> i + 2]
             ELSE ParseItems(toks, i + 1, <<>>)
        [] OTHER -> SyntaxError
ParseItems(toks, i, acc) ==
    LET r == ParseValue(toks, i) IN
    IF ~r.ok \/ r.next > Len(toks) THEN SyntaxError
    ELSE IF toks[r.next].t = "," THEN ParseItems(toks, r.next + 1, Append(acc, r.v))
    ELSE IF toks[r.next].t = "]"
         THEN [ok |-> TRUE, v |-> ArrV(Append(acc, r.v)), next |-> r.next + 1]
    ELSE SyntaxError

\* JSON.parse: the value, or a thrown SyntaxError
JSONparse(text) ==
    LET r == ParseValue(text, 1) IN
    IF r.ok /\ r.next = Len(text) + 1
    THEN [threw |-> FALSE, value |-> r.v]
    ELSE [threw |-> TRUE, value |-> NullV]

\* ------------------------------------------------------ cart snapshot input
\* merch.componentReference?.value: absent (null / undefined) or a string
Absent == [present |-> FALSE, text |-> <<>>]
Text(t) == [present |-> TRUE, text |-> t]

Elems == {StrV(V1), StrV(V2), StrV(P1), StrV(X1), NumV}
Arrays == {ArrV(items) : items \in UNION {[1..n -> Elems] : n \in 0..MaxIds}}
Truncated == {SubSeq(stringify(a), 1, Len(stringify(a)) - 1) :
                 a \in {b \in Arrays : Len(b.items) = 1 /\ b.items[1] = StrV(V1)}}
Raws ==
    {Absent, Text(<<>>), Text(<<Tok("not"), Tok("json")>>)}
      \cup {Text(stringify(v)) : v \in Arrays \cup {ObjV, StrV(V1)}}
      \cup {Text(t) : t \in Truncated}

PlainLine(q) ==
    [typename |-> "CustomProduct", merchId |-> <<>>, quantity |-> q, raw |-> Absent]
VariantLine(b, q, raw) ==
    [typename |-> "ProductVariant", merchId |-> b, quantity |-> q, raw |-> raw]
Lines ==
    {PlainLine(q) : q \in 1..MaxQty}
      \cup {VariantLine(b, q, raw) : b \in BundleVariantIds, q \in 1..MaxQty, raw \in Raws}
WithId(l, i) ==
    [id |-> LineId(i), typename |-> l.typename, merchId |-> l.merchId,
     quantity |-> l.quantity, raw |-> l.raw]
CartsOf(lines, lens) ==
    {[i \in 1..Len(ls) |-> WithId(ls[i], i)] :
        ls \in UNION {[1..n -> lines] : n \in lens}}
\* the lines that carts of several lines are made of
SomeRaws ==
    {Absent, Text(<<Tok("not"), Tok("json")>>)}
      \cup {Text(stringify(ArrV(items))) :
              items \in {<<StrV(X1)>>, <<StrV(P1)>>, <<StrV(V1)>>, <<StrV(V1), StrV(V2)>>}}
SomeLines ==
    {PlainLine(1)}
      \cup {VariantLine(b, q, raw) : b \in BundleVariantIds, q \in 1..MaxQty, raw \in SomeRaws}
\* every payload on a cart of one line, some payloads on longer carts
Carts == CartsOf(Lines, 0..1) \cup CartsOf(SomeLines, 2..MaxLines)
\* the carts of the calls made in between
OtherCarts == CartsOf(SomeLines, 0..1)

\* ------------------------------------------------------- cartTransformRun
NoChangesRef == 0

\* parseVariantIdList without its try / catch
parseVariantIdListNoCatch(raw) ==
    IF ~raw.present \/ raw.text = <<>> THEN [threw |-> FALSE, ids |-> <<>>]
    ELSE LET parsed == JSONparse(raw.text) IN
      IF parsed.threw THEN [threw |-> TRUE, ids |-> <<>>]
      ELSE IF parsed.value.k = "array"
      THEN [threw |-> FALSE,
            ids |-> LET Keep(v) == v.k = "string" /\ startsWith(v.s, <<"gid://">>)
                        kept == SelectSeq(parsed.value.items, Keep)
                    IN [i \in 1..Len(kept) |-> kept[i].s]]
      ELSE [threw |-> FALSE, ids |-> <<>>]

\* parseVariantIdList that keeps every string of the array
parseVariantIdListNoPrefix(raw) ==
    IF ~raw.present \/ raw.text = <<>> THEN [threw |-> FALSE, ids |-> <<>>]
    ELSE LET parsed == JSONparse(raw.text) IN
      IF parsed.threw THEN [threw |-> FALSE, ids |-> <<>>]
      ELSE IF parsed.value.k = "array"
      THEN [threw |-> FALSE,
            ids |-> LET Keep(v) == v.k = "string"
                        kept == SelectSeq(parsed.value.items, Keep)
                    IN [i \in 1..Len(kept) |-> kept[i].s]]
      ELSE [threw |-> FALSE, ids |-> <<>>]

parseVariantIdList(raw) ==
    IF ~raw.present \/ raw.text = <<>> THEN [threw |-> FALSE, ids |-> <<>>]
    ELSE LET parsed == JSONparse(raw.text) IN
      IF parsed.threw THEN [threw |-> FALSE, ids |-> <<>>]
      ELSE IF parsed.value.k = "array"
      THEN [threw |-> FALSE,
            ids |-> LET Keep(v) == v.k = "string" /\ startsWith(v.s, <<"gid://">>)
                        kept == SelectSeq(parsed.value.items, Keep)
                    IN [i \in 1..Len(kept) |-> kept[i].s]]
      ELSE [threw |-> FALSE, ids |-> <<>>]

Attr(key, value) == [key |-> key, value |-> value]

\* replacement items of fixed quantity 1
expandedCartItemsFixedQty(line, componentVariantIds) ==
    [i \in 1..Len(componentVariantIds) |->
        [merchandiseId |-> componentVariantIds[i],
         quantity |-> 1,
         attributes |-> <<Attr("_bundle_parent_variant_id", line.merchId),
                          Attr("_bundle_component", <<"true">>)>>]]

\* replacement items that carry a price override
expandedCartItemsPriced(line, componentVariantIds) ==
    [i \in 1..Len(componentVariantIds) |->
        [merchandiseId |-> componentVariantIds[i],
         quantity |-> line.quantity,
         attributes |-> <<Attr("_bundle_parent_variant_id", line.merchId),
                          Attr("_bundle_component", <<"true">>)>>,
         price |-> [adjustment |-> "fixedPricePerUnit"]]]

expandedCartItems(line, componentVariantIds) ==
    [i \in 1..Len(componentVariantIds) |->
        [merchandiseId |-> componentVariantIds[i],
         quantity |-> line.quantity,
         attributes |-> <<Attr("_bundle_parent_variant_id", line.merchId),
                          Attr("_bundle_component", <<"true">>)>>]]

lineExpand(line, componentVariantIds) ==
    [lineExpand |->
        [cartLineId |-> line.id,
         expandedCartItems |-> expandedCartItems(line, componentVariantIds)]]

\* operations.push at the front instead of the back
pushFront(operations, op) == <<op>> \o operations

push(operations, op) == Append(operations, op)

\* the for loop over input.cart.lines, from line i on
RECURSIVE forLines(_, _, _)
forLines(lines, i, operations) ==
    IF i > Len(lines) THEN [raised |-> FALSE, operations |-> operations]
    ELSE LET line == lines[i] IN
      IF line.typename # "ProductVariant" THEN forLines(lines, i + 1, operations)
      ELSE LET parsed == parseVariantIdList(line.raw) IN
        IF parsed.threw THEN [raised |-> TRUE, operations |-> operations]
        ELSE IF Len(parsed.ids) = 0 THEN forLines(lines, i + 1, operations)
        ELSE forLines(lines, i + 1, push(operations, lineExpand(line, parsed.ids)))

\* a run that accumulates into the module-level NO_CHANGES.operations array
cartTransformRunShared(lines, noChanges, fresh) ==
    LET r == forLines(lines, 1, noChanges.operations)
        shared == [ref |-> NoChangesRef, operations |-> r.operations]
    IN [raised |-> r.raised,
        value |-> IF Len(r.operations) > 0
                  THEN [ref |-> fresh, operations |-> r.operations]
                  ELSE shared,
        NO_CHANGES |-> shared]

\* a run that builds a new empty result each time
cartTransformRunFresh(lines, noChanges, fresh) ==
    LET r == forLines(lines, 1, <<>>)
    IN [raised |-> r.raised,
        value |-> [ref |-> fresh, operations |-> r.operations],
        NO_CHANGES |-> noChanges]

\* cartTransformRun(input): lines = input.cart.lines, noChanges the module's
\* NO_CHANGES object, fresh the identity of an object allocated by this call
cartTransformRun(lines, noChanges, fresh) ==
    LET r == forLines(lines, 1, <<>>)
    IN [raised |-> r.raised,
        value |-> IF Len(r.operations) > 0
                  THEN [ref |-> fresh, operations |-> r.operations]
                  ELSE noChanges,
        NO_CHANGES |-> noChanges]

\* -------------------------------------------- text of option values, norm
\* an option value, a title or an option name is a sequence of characters
UpperCase == <<"A", "B", "C", "D", "E", "F", "G", "H", "I", "J", "K", "L", "M", "N", "O", "P", "Q", "R", "S", "T", "U", "V", "W", "X", "Y", "Z">>
LowerCase == <<"a", "b", "c", "d", "e", "f", "g", "h", "i", "j", "k", "l", "m", "n", "o", "p", "q", "r", "s", "t", "u", "v", "w", "x", "y", "z">>
Digits == {"0", "1", "2", "3", "4", "5", "6", "7", "8", "9"}
ZeroWidth == {"u200B", "u200C", "u200D", "uFEFF"}
WhiteSpace == {" ", "uFEFF"}
sBlack == <<"B", "l", "a", "c", "k">>
sBlue == <<"B", "l", "u", "e">>
sObsidianBlack == <<"O", "b", "s", "i", "d", "i", "a", "n", " ", "B", "l", "a", "c", "k">>
sDefaultTitle == <<"D", "e", "f", "a", "u", "l", "t", " ", "T", "i", "t", "l", "e">>
sTitle == <<"T", "i", "t", "l", "e">>
sColor == <<"C", "o", "l", "o", "r">>
sDash == <<"-">>
sBlackZeroWidth == <<"B", "l", "u200B", "a", "c", "k">>

toLowerCase(s) ==
    [i \in DOMAIN s |->
        IF \E k \in DOMAIN UpperCase : UpperCase[k] = s[i]
        THEN LowerCase[CHOOSE k \in DOMAIN UpperCase : UpperCase[k] = s[i]]
        ELSE s[i]]
IsAlnum(c) == c \in Digits \/ \E k \in DOMAIN LowerCase : LowerCase[k] = c
\* s.replace(/[set]/g, "")
remove(s, set) == LET Kept(c) == c \notin set IN SelectSeq(s, Kept)
\* s.replace(/[^a-z0-9]+/g, " ")
replaceNonAlnumRuns(s) ==
    LET Starts(i) == IsAlnum(s[i]) \/ i = 1 \/ IsAlnum(s[i - 1])
        idx == SelectSeq([i \in 1..Len(s) |-> i], Starts)
    IN [k \in 1..Len(idx) |-> IF IsAlnum(s[idx[k]]) THEN s[idx[k]] ELSE " "]
\* s.replace(/\s+/g, " ")
replaceSpaceRuns(s) ==
    LET Starts(i) == s[i] \notin WhiteSpace \/ i = 1 \/ s[i - 1] \notin WhiteSpace
        idx == SelectSeq([i \in 1..Len(s) |-> i], Starts)
    IN [k \in 1..Len(idx) |-> IF s[idx[k]] \in WhiteSpace THEN " " ELSE s[idx[k]]]
trim(s) ==
    LET solid == {i \in 1..Len(s) : s[i] \notin WhiteSpace}
    IN IF solid = {} THEN <<>>
       ELSE SubSeq(s, CHOOSE i \in solid : \A j \in solid : i <= j,
                      CHOOSE i \in solid : \A j \in solid : i >= j)
includes(s, part) ==
    \E i \in 0..(Len(s) - Len(part)) : SubSeq(s, i + 1, i + Len(part)) = part
RECURSIVE join(_, _)
join(strings, sep) ==
    IF Len(strings) = 0 THEN <<>>
    ELSE IF Len(strings) = 1 THEN strings[1]
    ELSE strings[1] \o sep \o join(Tail(strings), sep)

\* norm of app.bundles.$id.tsx
norm(s) == trim(replaceSpaceRuns(replaceNonAlnumRuns(remove(toLowerCase(s), ZeroWidth))))
\* norm of app.bundles._index.tsx and of app.bundles.new.tsx
normPlain(s) == trim(replaceNonAlnumRuns(toLowerCase(s)))
\* normalize of syncBundleVariants
normalize(s) == toLowerCase(trim(s))

optionValues(v) == [i \in DOMAIN v.selectedOptions |-> v.selectedOptions[i].value]
\* app.bundles.$id.tsx
valuesBlob(v) == norm(join(optionValues(v), <<" ">>))
matchesByValues(bundleVar, componentVar) ==
    LET b == valuesBlob(bundleVar)
        cVals == [i \in DOMAIN componentVar.selectedOptions |->
                     norm(componentVar.selectedOptions[i].value)]
    IN \A i \in DOMAIN cVals : includes(b, cVals[i])
\* app.bundles._index.tsx
valuesBlobList(v) == normPlain(join(optionValues(v), <<" ">>))
matchesByValuesList(bundleVar, componentVar) ==
    LET b == valuesBlobList(bundleVar)
        cVals == [i \in DOMAIN componentVar.selectedOptions |->
                     normPlain(componentVar.selectedOptions[i].value)]
    IN \A i \in DOMAIN cVals : includes(b, cVals[i])
\* app.bundles.new.tsx
variantValueBlob(v) == normPlain(join(optionValues(v), <<" ">>))
matchesByValuesNew(bundleVar, componentVar) ==
    LET b == variantValueBlob(bundleVar) IN
    \A i \in DOMAIN componentVar.selectedOptions :
        LET cv == normPlain(componentVar.selectedOptions[i].value)
        IN includes(b, cv) \/ includes(cv, b)

\* Array.prototype.find: the first element that matches, or undefined
\* (app.bundles.$id.tsx:152-153, comp1Variants.find / comp2Variants.find)
Undefined == <<>>
find(variants, Test(_)) ==
    LET hits == SelectSeq(variants, Test)
    IN IF Len(hits) = 0 THEN Undefined ELSE hits[1].id

\* ------------------------------------------------- the platform's products
BundleProduct == Gid("Product/", "9")
ComponentA == Gid("Product/", "1")
ComponentB == Gid("Product/", "2")
ProductIds == {BundleProduct, ComponentA, ComponentB}
\* a third product of the shop, which a merchant may choose as a component
ComponentC == Gid("Product/", "3")
ShopProducts == ProductIds \cup {ComponentC}
\* the id of the i-th variant ever created on a product
VariantId(productId, i) ==
    Gid("ProductVariant/",
        ToString(i + (IF productId = BundleProduct THEN 90
                      ELSE IF productId = ComponentB THEN 10
                      ELSE IF productId = ComponentC THEN 20 ELSE 0)))

Option(name, value) == [name |-> name, value |-> value]
VariantNode(id, options) ==
    [id |-> id,
     title |-> join([i \in DOMAIN options |-> options[i].value], <<" ", "/", " ">>),
     selectedOptions |-> options]
\* the distinct elements of a sequence, in order of first appearance
Distinct(seq) ==
    LET First(i) == \A j \in 1..(i - 1) : seq[j] # seq[i]
        idx == SelectSeq([i \in 1..Len(seq) |-> i], First)
    IN [k \in 1..Len(idx) |-> seq[idx[k]]]

\* a product that the platform does not (or no longer) know
MissingProduct == [exists |-> FALSE, options |-> <<>>, variants |-> <<>>, created |-> 0]
\* a product as productCreate leaves it: one default variant
DefaultProduct(productId) ==
    [exists |-> TRUE,
     options |-> <<[name |-> sTitle, optionValues |-> <<sDefaultTitle>>]>>,
     variants |-> <<VariantNode(VariantId(productId, 1), <<Option(sTitle, sDefaultTitle)>>)>>,
     created |-> 1]
\* a product with one option, Color; unused are option values without variant
ColorProduct(productId, values, unused) ==
    [exists |-> TRUE,
     options |-> <<[name |-> sColor, optionValues |-> Distinct(values \o unused)]>>,
     variants |-> [i \in DOMAIN values |->
                     VariantNode(VariantId(productId, i), <<Option(sColor, values[i])>>)],
     created |-> Len(values)]

ValueLists(values) == UNION {[1..n -> values] : n \in 1..MaxVariants}
BundleValues == {sBlack, sBlue, sObsidianBlack, sDash}
ComponentValues == {sBlack, sBlue}
\* the platform keeps the option values of a product's variants distinct
DistinctLists(values) ==
    {vs \in ValueLists(values) : \A i, j \in DOMAIN vs : vs[i] = vs[j] => i = j}
BundleProducts ==
    {MissingProduct, DefaultProduct(BundleProduct)}
      \cup {ColorProduct(BundleProduct, vs, <<>>) : vs \in DistinctLists(BundleValues)}
\* the values of the components a merchant maps by value containment
RouteValues(productId) ==
    IF productId = ComponentA THEN {sBlack, sBlue, sObsidianBlack} ELSE {sBlack, sObsidianBlack}
RouteProducts(productId) ==
    {MissingProduct, DefaultProduct(productId)}
      \cup {ColorProduct(productId, vs, <<>>) : vs \in DistinctLists(RouteValues(productId))}
ComponentProducts(productId) ==
    {MissingProduct, DefaultProduct(productId)}
      \cup {ColorProduct(productId, vs, <<>>) : vs \in ValueLists(ComponentValues)}
\* component products that may list an option value no variant uses
ComponentProductsWithUnused(productId) ==
    ComponentProducts(productId)
      \cup UNION {{ColorProduct(productId, vs, <<u>>) :
                      u \in {w \in ComponentValues : \A i \in DOMAIN vs : vs[i] # w}} :
                  vs \in ValueLists(ComponentValues)}

\* the simple_bundler/components metafield of a variant found by an earlier sync
StaleMapping == Text(stringify(ArrV(<<StrV(Gid("ProductVariant/", "7")),
                                      StrV(Gid("ProductVariant/", "8"))>>)))

\* ---------------------------------------------------- platform operations
\* query GetProductVariants: json?.data?.product?.variants?.nodes ?? []
fetchVariants(catalog, productId) == catalog[productId].variants

\* the userErrors a metafieldsSet answer can carry; none when it was accepted
OwnerInvalid == [field |-> "ownerId", message |-> <<"Owner does not exist.">>]
ValueInvalid == [field |-> "value", message |-> <<"Value is invalid JSON.">>]
UserErrorLists == {<<>>, <<OwnerInvalid, ValueInvalid>>}
\* mutation metafieldsSet, accepted: every metafield of the batch is stored
metafieldsSet(stored, batch) ==
    [id \in DOMAIN stored \cup {batch[i].ownerId : i \in DOMAIN batch} |->
        IF \E i \in DOMAIN batch : batch[i].ownerId = id
        THEN Text(batch[CHOOSE i \in DOMAIN batch : batch[i].ownerId = id].value)
        ELSE stored[id]]

IsDefaultOnly(product) ==
    /\ Len(product.options) = 1
    /\ product.options[1].name = sTitle
    /\ product.options[1].optionValues = <<sDefaultTitle>>
\* mutation productOptionsCreate, variantStrategy LEAVE_AS_IS, accepted: the
\* existing variants take the first value of the new option
productOptionsCreate(product, name, values) ==
    LET kept == IF IsDefaultOnly(product) THEN <<>> ELSE product.options
        Selected(v) == (IF IsDefaultOnly(product) THEN <<>> ELSE v.selectedOptions)
                          \o <<Option(name, values[1])>>
    IN [exists |-> TRUE,
        options |-> Append(kept, [name |-> name, optionValues |-> values]),
        variants |-> [i \in DOMAIN product.variants |->
                        VariantNode(product.variants[i].id, Selected(product.variants[i]))],
        created |-> product.created]
\* mutation productVariantDelete, accepted
productVariantDelete(product, id) ==
    LET Others(v) == v.id # id
    IN [exists |-> TRUE, options |-> product.options,
        variants |-> SelectSeq(product.variants, Others),
        created |-> product.created]
\* mutation productVariantsBulkCreate, accepted
productVariantsBulkCreate(productId, product, variantsToCreate) ==
    [exists |-> TRUE, options |-> product.options,
     variants |-> product.variants \o
        [i \in DOMAIN variantsToCreate |->
            VariantNode(VariantId(productId, product.created + i),
                        <<Option(variantsToCreate[i].optionName, variantsToCreate[i].name)>>)],
     created |-> product.created + Len(variantsToCreate)]
\* the platform accepts productVariantsBulkCreate only for an option the
\* product has and for values no variant has yet
CanBulkCreate(product, variantsToCreate) ==
    \A i \in DOMAIN variantsToCreate :
        /\ \E o \in DOMAIN product.options :
               product.options[o].name = variantsToCreate[i].optionName
        /\ \A v \in DOMAIN product.variants :
               product.variants[v].selectedOptions # <<Option(variantsToCreate[i].optionName,
                                                              variantsToCreate[i].name)>>

\* ------------------------------------------------------ the variant mappers
\* the pair written with component B first
MetafieldSwapped(ownerId, c1, c2) ==
    [ownerId |-> ownerId, namespace |-> "simple_bundler", key |-> "components",
     type |-> "json", value |-> stringify(ArrV(<<StrV(c2), StrV(c1)>>))]
Metafield(ownerId, c1, c2) ==
    [ownerId |-> ownerId, namespace |-> "simple_bundler", key |-> "components",
     type |-> "json", value |-> stringify(ArrV(<<StrV(c1), StrV(c2)>>))]
Ok == [ok |-> TRUE, error |-> "", detail |-> <<>>]
Failure(error, detail) == [ok |-> FALSE, error |-> error, detail |-> detail]
Threw(error) == [ok |-> FALSE, error |-> error, detail |-> <<"thrown">>]
NoResult == [ok |-> FALSE, error |-> "pending", detail |-> <<>>]

\* the for loop of syncComponentsMetafields (app.bundles.$id.tsx), from
\* bundle variant i on
RECURSIVE syncLoop(_, _, _, _, _, _)
syncLoop(bundleVariants, comp1Variants, comp2Variants, i, metafields, missing) ==
    IF i > Len(bundleVariants) THEN [metafields |-> metafields, missing |-> missing]
    ELSE LET bv == bundleVariants[i]
             Match(v) == matchesByValues(bv, v)
             c1 == find(comp1Variants, Match)
             c2 == find(comp2Variants, Match)
         IN IF c1 = Undefined \/ c2 = Undefined
            THEN syncLoop(bundleVariants, comp1Variants, comp2Variants, i + 1, metafields,
                          Append(missing, IF valuesBlob(bv) # <<>> THEN valuesBlob(bv) ELSE bv.id))
            ELSE syncLoop(bundleVariants, comp1Variants, comp2Variants, i + 1,
                          Append(metafields, Metafield(bv.id, c1, c2)), missing)

\* a sync that searches each component from its last variant backwards
syncComponentsMetafieldsLastMatch(bundleVariants, comp1Variants, comp2Variants) ==
    IF Len(bundleVariants) = 0
    THEN [send |-> <<>>, result |-> Failure("Bundle product has no variants.", <<>>)]
    ELSE IF Len(comp1Variants) = 0 \/ Len(comp2Variants) = 0
    THEN [send |-> <<>>,
          result |-> Failure("One of the component products has no variants.", <<>>)]
    ELSE LET Reverse(seq) == [i \in DOMAIN seq |-> seq[Len(seq) + 1 - i]]
             r == syncLoop(bundleVariants, Reverse(comp1Variants), Reverse(comp2Variants),
                           1, <<>>, <<>>) IN
      IF Len(r.missing) > 0
      THEN [send |-> <<>>,
            result |-> Failure("Could not map these bundle variant values to component variants: ",
                               join(r.missing, <<",", " ">>))]
      ELSE [send |-> r.metafields, result |-> NoResult]

\* a sync whose error lists every bundle variant, the matched ones included
syncComponentsMetafieldsAllListed(bundleVariants, comp1Variants, comp2Variants) ==
    IF Len(bundleVariants) = 0
    THEN [send |-> <<>>, result |-> Failure("Bundle product has no variants.", <<>>)]
    ELSE IF Len(comp1Variants) = 0 \/ Len(comp2Variants) = 0
    THEN [send |-> <<>>,
          result |-> Failure("One of the component products has no variants.", <<>>)]
    ELSE LET r == syncLoop(bundleVariants, comp1Variants, comp2Variants, 1, <<>>, <<>>) IN
      IF Len(r.missing) > 0
      THEN [send |-> <<>>,
            result |-> Failure("Could not map these bundle variant values to component variants: ",
                               join([i \in DOMAIN bundleVariants |->
                                        IF valuesBlob(bundleVariants[i]) # <<>>
                                        THEN valuesBlob(bundleVariants[i])
                                        ELSE bundleVariants[i].id], <<",", " ">>))]
      ELSE [send |-> r.metafields, result |-> NoResult]

\* syncComponentsMetafields between the join of its three reads and its
\* write: the result it returns early, or the batch it sends
syncComponentsMetafields(bundleVariants, comp1Variants, comp2Variants) ==
    IF Len(bundleVariants) = 0
    THEN [send |-> <<>>, result |-> Failure("Bundle product has no variants.", <<>>)]
    ELSE IF Len(comp1Variants) = 0 \/ Len(comp2Variants) = 0
    THEN [send |-> <<>>,
          result |-> Failure("One of the component products has no variants.", <<>>)]
    ELSE LET r == syncLoop(bundleVariants, comp1Variants, comp2Variants, 1, <<>>, <<>>) IN
      IF Len(r.missing) > 0
      THEN [send |-> <<>>,
            result |-> Failure("Could not map these bundle variant values to component variants: ",
                               join(r.missing, <<",", " ">>))]
      ELSE [send |-> r.metafields, result |-> NoResult]

\* the for loop of syncComponentsMetafields (app.bundles._index.tsx)
RECURSIVE listLoop(_, _, _, _, _, _)
listLoop(bundleVariants, comp1Variants, comp2Variants, i, metafields, missing) ==
    IF i > Len(bundleVariants) THEN [metafields |-> metafields, missing |-> missing]
    ELSE LET bv == bundleVariants[i]
             Match(v) == matchesByValuesList(bv, v)
             c1 == find(comp1Variants, Match)
             c2 == find(comp2Variants, Match)
         IN IF c1 = Undefined \/ c2 = Undefined
            THEN listLoop(bundleVariants, comp1Variants, comp2Variants, i + 1, metafields,
                          Append(missing, IF valuesBlobList(bv) # <<>>
                                          THEN valuesBlobList(bv) ELSE bv.id))
            ELSE listLoop(bundleVariants, comp1Variants, comp2Variants, i + 1,
                          Append(metafields, Metafield(bv.id, c1, c2)), missing)

\* syncComponentsMetafields of app.bundles._index.tsx, between the join of
\* its reads and its write
syncComponentsMetafieldsList(bundleVariants, comp1Variants, comp2Variants) ==
    IF Len(bundleVariants) = 0
    THEN [send |-> <<>>, result |-> Failure("Bundle product has no variants.", <<>>)]
    ELSE IF Len(comp1Variants) = 0 \/ Len(comp2Variants) = 0
    THEN [send |-> <<>>,
          result |-> Failure("One of the component products has no variants.", <<>>)]
    ELSE LET r == listLoop(bundleVariants, comp1Variants, comp2Variants, 1, <<>>, <<>>) IN
      IF Len(r.missing) > 0
      THEN [send |-> <<>>,
            result |-> Failure("Could not map these bundle variant values to component variants: ",
                               join(r.missing, <<",", " ">>))]
      ELSE [send |-> r.metafields, result |-> NoResult]

\* the for loop of writeBundleComponentsMetafields (app.bundles.new.tsx)
RECURSIVE writeLoop(_, _, _, _, _, _)
writeLoop(bundleVariants, comp1Variants, comp2Variants, i, metafields, missing) ==
    IF i > Len(bundleVariants) THEN [metafields |-> metafields, missing |-> missing]
    ELSE LET bv == bundleVariants[i]
             Match(v) == matchesByValuesNew(bv, v)
             c1 == find(comp1Variants, Match)
             c2 == find(comp2Variants, Match)
         IN IF c1 = Undefined \/ c2 = Undefined
            THEN writeLoop(bundleVariants, comp1Variants, comp2Variants, i + 1, metafields,
                           Append(missing, IF variantValueBlob(bv) # <<>>
                                           THEN variantValueBlob(bv) ELSE bv.id))
            ELSE writeLoop(bundleVariants, comp1Variants, comp2Variants, i + 1,
                           Append(metafields, Metafield(bv.id, c1, c2)), missing)

writeBundleComponentsMetafields(bundleVariants, comp1Variants, comp2Variants) ==
    IF Len(bundleVariants) = 0
    THEN [send |-> <<>>, result |-> Failure("Bundle has no variants.", <<>>)]
    ELSE IF Len(comp1Variants) = 0 \/ Len(comp2Variants) = 0
    THEN [send |-> <<>>, result |-> Failure("A component product has no variants.", <<>>)]
    ELSE LET r == writeLoop(bundleVariants, comp1Variants, comp2Variants, 1, <<>>, <<>>) IN
      IF Len(r.missing) > 0
      THEN [send |-> <<>>,
            result |-> Failure("Could not map these bundle variant values to component variants: ",
                               join(r.missing, <<",", " ">>))]
      ELSE [send |-> r.metafields, result |-> NoResult]

\* ---- syncBundleVariants (utils/syncBundleVariants.server)
isSingleVariantBundle(aVariants, bVariants) ==
    /\ Len(aVariants) = 1
    /\ Len(bVariants) = 1
    /\ aVariants[1].title = sDefaultTitle
    /\ bVariants[1].title = sDefaultTitle
\* productA.options[0]?.name, undefined when the product has no option
bundleOptionNameOf(productA) ==
    IF Len(productA.options) = 0 THEN Undefined ELSE productA.options[1].name
sharedValuesOf(productA, productB) ==
    IF Len(productA.options) = 0 THEN <<>>
    ELSE LET Shared(value) ==
                 /\ Len(productB.options) > 0
                 /\ \E b \in DOMAIN productB.options[1].optionValues :
                        normalize(productB.options[1].optionValues[b]) = normalize(value)
         IN SelectSeq(productA.options[1].optionValues, Shared)
bundleHasOption(bundle, bundleOptionName) ==
    \E o \in DOMAIN bundle.options :
        normalize(bundle.options[o].name) = normalize(bundleOptionName)
\* bundleVariants.find(v => normalize(v.title) === "default title")
defaultVariantOf(bundleVariants) ==
    LET IsDefault(v) == normalize(v.title) = toLowerCase(sDefaultTitle)
    IN find(bundleVariants, IsDefault)
variantsToCreateOf(bundleVariants, sharedValues, bundleOptionName) ==
    LET existingValues == {normalize(bundleVariants[i].selectedOptions[1].value) :
                              i \in DOMAIN bundleVariants}
        Missing(value) == normalize(value) \notin existingValues
        values == SelectSeq(sharedValues, Missing)
    IN [i \in DOMAIN values |-> [optionName |-> bundleOptionName, name |-> values[i]]]
\* aVariants.find(v => normalize(v.selectedOptions?.[0]?.value) === normalize(value))
findByFirstValue(variants, value) ==
    LET Same(v) == normalize(v.selectedOptions[1].value) = normalize(value)
    IN find(variants, Same)
\* whether the final loop of syncBundleVariants writes for this bundle variant
Mappable(variant, aVariants, bVariants) ==
    /\ findByFirstValue(aVariants, variant.selectedOptions[1].value) # Undefined
    /\ findByFirstValue(bVariants, variant.selectedOptions[1].value) # Undefined
\* the next variant from index i on that the final loop does not skip, or 0
nextMappable(finalVariants, aVariants, bVariants, i) ==
    LET todo == {k \in i..Len(finalVariants) : Mappable(finalVariants[k], aVariants, bVariants)}
    IN IF todo = {} THEN 0 ELSE CHOOSE k \in todo : \A j \in todo : k <= j

\* ------------------------------------------------------------------- state
VARIABLES
    input,       \* the cart snapshot under observation
    pc,          \* "idle", "ran" (called once), "reran" (called twice)
    first,       \* what the first call on input returned
    output,      \* what the latest call on input returned
    others,      \* number of calls on other carts made so far
    NO_CHANGES,  \* the module-level constant object
    nextRef,     \* identity of the next object a call allocates
    products,    \* the platform's products: options and variants
    metafields,  \* the platform's simple_bundler/components metafield per variant
    mapper,      \* the running variant mapper: which one, and where it is
    m,           \* the mapper's local variables
    setCalls,    \* the metafieldsSet calls issued by the mappers in flight
    result,      \* what the mapper returned or threw
    probe,       \* a pair of variants and what a matcher answered on it
    db,          \* the app's database: the bundle row and its component rows
    titles,      \* the platform's title of each product
    env,         \* the clock, and how much has happened so far
    req,         \* the request being served: its intent, form and position
    parked,      \* the other request in flight, waiting at an await
    table,       \* the Bundle table of the app's database, all shops
    page         \* the loader or action of the list page being served

cartVars == <<input, pc, first, output, others, NO_CHANGES, nextRef>>
mapperVars == <<products, metafields, mapper, m, setCalls, result>>
textVars == <<probe>>
appVars == <<db, titles, env, req, parked>>
listVars == <<table, page>>
vars == <<cartVars, mapperVars, textVars, appVars, listVars>>

None == [raised |-> FALSE, value |-> [ref |-> -1, operations |-> <<>>]]
Returned(r) == [raised |-> r.raised, value |-> r.value]
NoLocals ==
    [bundleVariants |-> <<>>, comp1Variants |-> <<>>, comp2Variants |-> <<>>,
     send |-> <<>>, sharedValues |-> <<>>, bundleOptionName |-> <<>>,
     variantsToCreate |-> <<>>, defaultVariant |-> <<>>, finalVariants |-> <<>>, i |-> 0,
     componentProductIds |-> <<ComponentA, ComponentB>>, arrived |-> <<>>]
NoMetafields == <<>>

Start(carts) ==
    /\ input \in carts
    /\ pc = "idle"
    /\ first = None
    /\ output = None
    /\ others = 0
    /\ NO_CHANGES = [ref |-> NoChangesRef, operations |-> <<>>]
    /\ nextRef = 1

NoProbe ==
    [matcher |-> "none", matched |-> FALSE, bundleVar |-> <<>>, componentVar |-> <<>>,
     raw |-> <<>>, key |-> <<>>, again |-> <<>>]
\* no matcher is under observation
ProbeIdle == probe = NoProbe

NoBundle == [exists |-> FALSE, title |-> <<>>, components |-> <<>>, lastValidatedAt |-> 0]
NoRequest ==
    [id |-> 0, intent |-> "none", pc |-> "idle", form |-> <<>>, bundle |-> NoBundle,
     before |-> <<>>, after |-> <<>>, overlapped |-> FALSE, response |-> <<>>]
\* no request is served: the mapper or the function is exercised by itself
AppIdle ==
    /\ db = NoBundle
    /\ titles = <<>>
    /\ env = [now |-> 1, requests |-> 0, edits |-> 0]
    /\ req = NoRequest
    /\ parked = <<>>

NoPage ==
    [kind |-> "none", pc |-> "idle", shop |-> "", id |-> 0, bundles |-> <<>>,
     existing |-> <<>>, missing |-> <<>>, health |-> <<>>, rows |-> <<>>,
     answer |-> <<>>, response |-> <<>>, before |-> <<>>, catalog |-> <<>>]
\* the list page is not served
ListIdle ==
    /\ table = <<>>
    /\ page = NoPage

\* no mapper runs
MapperIdle ==
    /\ products = [p \in ProductIds |-> MissingProduct]
    /\ metafields = NoMetafields
    /\ mapper = [kind |-> "none", pc |-> "idle"]
    /\ m = NoLocals
    /\ setCalls = <<>>
    /\ result = NoResult

\* the host calls the function on the observed cart for the first time
Run ==
    /\ pc = "idle"
    /\ LET r == cartTransformRun(input, NO_CHANGES, nextRef) IN
         /\ first' = Returned(r)
         /\ output' = Returned(r)
         /\ NO_CHANGES' = r.NO_CHANGES
    /\ nextRef' = nextRef + 1
    /\ pc' = "ran"
    /\ UNCHANGED <<input, others, mapperVars, textVars, listVars, appVars>>

\* the host calls the function on some other cart
RunOther ==
    /\ others < MaxOther
    /\ pc \in {"idle", "ran"}
    /\ \E c \in OtherCarts :
         /\ c # input
         /\ NO_CHANGES' = cartTransformRun(c, NO_CHANGES, nextRef).NO_CHANGES
    /\ nextRef' = nextRef + 1
    /\ others' = others + 1
    /\ UNCHANGED <<input, pc, first, output, mapperVars, textVars, listVars, appVars>>

\* the host calls the function on the observed cart again
Rerun ==
    /\ pc = "ran"
    /\ LET r == cartTransformRun(input, NO_CHANGES, nextRef) IN
         /\ output' = Returned(r)
         /\ NO_CHANGES' = r.NO_CHANGES
    /\ nextRef' = nextRef + 1
    /\ pc' = "reran"
    /\ UNCHANGED <<input, first, others, mapperVars, textVars, listVars, appVars>>

InitCart == Start(Carts) /\ MapperIdle /\ ProbeIdle /\ AppIdle /\ ListIdle
NextCart == Run \/ RunOther \/ Rerun
SpecCart == InitCart /\ [][NextCart]_vars

\* ---------------------------------------------------- the mappers' steps
Catalog(bundle, a, b) ==
    [p \in ProductIds |-> IF p = BundleProduct THEN bundle ELSE IF p = ComponentA THEN a ELSE b]
\* the metafields an earlier sync left on the variants of a product
Stale(product) ==
    [id \in {product.variants[i].id : i \in DOMAIN product.variants} |-> StaleMapping]

\* the sync of the edit page is invoked on an existing bundle product; the
\* two mappers of the creation flows on the product productCreate returned
InitMapper ==
    /\ Start({<<>>})
    /\ ProbeIdle
    /\ AppIdle
    /\ ListIdle
    /\ m = NoLocals
    /\ setCalls = <<>>
    /\ result = NoResult
    /\ \/ /\ mapper \in {[kind |-> k, pc |-> "start"] : k \in {"sync", "list"}}
          /\ \E bundle \in BundleProducts, a \in RouteProducts(ComponentA),
                b \in RouteProducts(ComponentB) :
               /\ products = Catalog(bundle, a, b)
               /\ metafields \in {NoMetafields, Stale(bundle)}
       \/ /\ mapper = [kind |-> "write", pc |-> "start"]
          /\ \E a \in RouteProducts(ComponentA), b \in RouteProducts(ComponentB) :
               products = Catalog(DefaultProduct(BundleProduct), a, b)
          /\ metafields = NoMetafields
       \/ /\ mapper = [kind |-> "util", pc |-> "start"]
          /\ \E a \in ComponentProductsWithUnused(ComponentA),
                b \in ComponentProductsWithUnused(ComponentB) :
               products = Catalog(DefaultProduct(BundleProduct), a, b)
          /\ metafields = NoMetafields

Done(r) ==
    /\ result' = r
    /\ mapper' = [mapper EXCEPT !.pc = "done"]

\* Promise.all of the three fetchVariants, then the mapper's computation up
\* to its early return or to the metafieldsSet request
FetchAndMap ==
    /\ mapper.kind \in {"sync", "list", "write"}
    /\ mapper.pc = "start"
    /\ LET bundleVariants == fetchVariants(products, BundleProduct)
           comp1Variants == fetchVariants(products, m.componentProductIds[1])
           comp2Variants == fetchVariants(products, m.componentProductIds[2])
           r == CASE mapper.kind = "sync" ->
                       syncComponentsMetafields(bundleVariants, comp1Variants, comp2Variants)
                  [] mapper.kind = "list" ->
                       syncComponentsMetafieldsList(bundleVariants, comp1Variants, comp2Variants)
                  [] OTHER ->
                       writeBundleComponentsMetafields(bundleVariants, comp1Variants, comp2Variants)
       IN /\ m' = [m EXCEPT !.bundleVariants = bundleVariants,
                            !.comp1Variants = comp1Variants,
                            !.comp2Variants = comp2Variants,
                            !.send = r.send]
          /\ IF r.send = <<>>
             THEN Done(r.result)
             ELSE /\ mapper' = [mapper EXCEPT !.pc = "set"]
                  /\ UNCHANGED result
    /\ UNCHANGED <<cartVars, textVars, listVars, appVars, products, metafields, setCalls>>

\* a batched write that reports success whatever the platform answered
SetBatchSwallow ==
    /\ mapper.kind \in {"sync", "list", "write"}
    /\ mapper.pc = "set"
    /\ \E userErrors \in UserErrorLists :
         /\ setCalls' = Append(setCalls, [batch |-> m.send, accepted |-> userErrors = <<>>,
                                          userErrors |-> userErrors, by |-> req.id, kind |-> mapper.kind])
         /\ metafields' = IF userErrors = <<>> THEN metafieldsSet(metafields, m.send)
                          ELSE metafields
         /\ Done(Ok)
    /\ UNCHANGED <<cartVars, textVars, listVars, appVars, products, m>>

\* the platform answers the batched metafieldsSet: it stores the whole batch,
\* or stores nothing and reports userErrors, whose messages the mapper returns
SetBatch ==
    /\ mapper.kind \in {"sync", "list", "write"}
    /\ mapper.pc = "set"
    /\ \E userErrors \in UserErrorLists :
         /\ setCalls' = Append(setCalls, [batch |-> m.send, accepted |-> userErrors = <<>>,
                                          userErrors |-> userErrors, by |-> req.id, kind |-> mapper.kind])
         /\ metafields' = IF userErrors = <<>> THEN metafieldsSet(metafields, m.send)
                          ELSE metafields
         /\ Done(IF Len(userErrors) > 0
                 THEN Failure("", join([i \in DOMAIN userErrors |-> userErrors[i].message],
                                       <<",", " ">>))
                 ELSE Ok)
    /\ UNCHANGED <<cartVars, textVars, listVars, appVars, products, m>>

\* syncBundleVariants after its step 4: which variants step 5 creates
AfterDelete(locals) ==
    LET todo == variantsToCreateOf(locals.bundleVariants, locals.sharedValues,
                                   locals.bundleOptionName)
    IN /\ m' = [locals EXCEPT !.variantsToCreate = todo]
       /\ mapper' = [mapper EXCEPT !.pc = IF Len(todo) > 0 THEN "createVariants" ELSE "finalFetch"]

\* syncBundleVariants, step 1 and cases 1 and 2
QueryNodes ==
    /\ mapper.kind = "util"
    /\ mapper.pc = "start"
    /\ LET bundle == products[BundleProduct]
           productA == products[m.componentProductIds[1]]
           productB == products[m.componentProductIds[2]]
           aVariants == productA.variants
           bVariants == productB.variants
           name == bundleOptionNameOf(productA)
           shared == sharedValuesOf(productA, productB)
           locals == [m EXCEPT !.comp1Variants = aVariants, !.comp2Variants = bVariants,
                               !.bundleOptionName = name, !.sharedValues = shared]
       IN IF ~productA.exists \/ ~productB.exists \/ ~bundle.exists
          THEN Done(Threw("TypeError")) /\ UNCHANGED m
          ELSE IF isSingleVariantBundle(aVariants, bVariants)
          THEN IF Len(bundle.variants) = 0
               THEN Done(Threw("TypeError")) /\ UNCHANGED m
               ELSE /\ m' = [locals EXCEPT !.send = <<Metafield(bundle.variants[1].id,
                                                               aVariants[1].id, bVariants[1].id)>>]
                    /\ mapper' = [mapper EXCEPT !.pc = "writeSingle"]
                    /\ UNCHANGED result
          ELSE IF name = Undefined \/ Len(shared) = 0
          THEN Done(Threw("No shared variant option found.")) /\ UNCHANGED m
          ELSE /\ m' = locals
               /\ mapper' = [mapper EXCEPT !.pc = IF bundleHasOption(bundle, name)
                                                  THEN "refresh" ELSE "createOption"]
               /\ UNCHANGED result
    /\ UNCHANGED <<cartVars, textVars, listVars, appVars, products, metafields, setCalls>>

\* case 1: the one write of the single-variant bundle; userErrors are not read
WriteSingle ==
    /\ mapper.kind = "util"
    /\ mapper.pc = "writeSingle"
    /\ \E accepted \in BOOLEAN :
         /\ setCalls' = Append(setCalls, [batch |-> m.send, accepted |-> accepted,
                                          userErrors |-> IF accepted THEN <<>> ELSE <<OwnerInvalid>>,
             by |-> req.id, kind |-> mapper.kind])
         /\ metafields' = IF accepted THEN metafieldsSet(metafields, m.send) ELSE metafields
    /\ Done(Ok)
    /\ UNCHANGED <<cartVars, textVars, listVars, appVars, products, m>>

\* step 2: productOptionsCreate; userErrors are not read
CreateOption ==
    /\ mapper.kind = "util"
    /\ mapper.pc = "createOption"
    /\ \E accepted \in BOOLEAN :
         products' = IF accepted
                     THEN [products EXCEPT ![BundleProduct] =
                             productOptionsCreate(@, m.bundleOptionName, m.sharedValues)]
                     ELSE products
    /\ mapper' = [mapper EXCEPT !.pc = "refresh"]
    /\ UNCHANGED <<cartVars, textVars, listVars, appVars, metafields, m, setCalls, result>>

\* step 3 and the test of step 4
Refresh ==
    /\ mapper.kind = "util"
    /\ mapper.pc = "refresh"
    /\ LET bundleVariants == products[BundleProduct].variants
           defaultVariant == defaultVariantOf(bundleVariants)
           locals == [m EXCEPT !.bundleVariants = bundleVariants]
       IN IF Len(m.sharedValues) > 1 /\ defaultVariant # Undefined
          THEN /\ m' = [locals EXCEPT !.defaultVariant = defaultVariant]
               /\ mapper' = [mapper EXCEPT !.pc = "deleteDefault"]
          ELSE AfterDelete(locals)
    /\ UNCHANGED <<cartVars, textVars, listVars, appVars, products, metafields, setCalls, result>>

\* step 4: productVariantDelete, which the platform refuses for the last
\* variant of a product; userErrors are not read
DeleteDefault ==
    /\ mapper.kind = "util"
    /\ mapper.pc = "deleteDefault"
    /\ \E accepted \in {FALSE} \cup {Len(products[BundleProduct].variants) > 1} :
         products' = IF accepted
                     THEN [products EXCEPT ![BundleProduct] =
                             productVariantDelete(@, m.defaultVariant)]
                     ELSE products
    /\ AfterDelete(m)
    /\ UNCHANGED <<cartVars, textVars, listVars, appVars, metafields, setCalls, result>>

\* step 5: productVariantsBulkCreate; userErrors are not read
CreateVariants ==
    /\ mapper.kind = "util"
    /\ mapper.pc = "createVariants"
    /\ \E accepted \in {FALSE} \cup {CanBulkCreate(products[BundleProduct], m.variantsToCreate)} :
         products' = IF accepted
                     THEN [products EXCEPT ![BundleProduct] =
                             productVariantsBulkCreate(BundleProduct, @, m.variantsToCreate)]
                     ELSE products
    /\ mapper' = [mapper EXCEPT !.pc = "finalFetch"]
    /\ UNCHANGED <<cartVars, textVars, listVars, appVars, metafields, m, setCalls, result>>

\* the final loop, up to its next write or to the end of the function
LoopFrom(locals, i) ==
    LET next == nextMappable(locals.finalVariants, locals.comp1Variants, locals.comp2Variants, i)
    IN IF next = 0
       THEN /\ m' = [locals EXCEPT !.i = Len(locals.finalVariants) + 1]
            /\ Done(Ok)
       ELSE /\ m' = [locals EXCEPT !.i = next]
            /\ mapper' = [mapper EXCEPT !.pc = "loop"]
            /\ UNCHANGED result

\* step 6
FinalFetch ==
    /\ mapper.kind = "util"
    /\ mapper.pc = "finalFetch"
    /\ LoopFrom([m EXCEPT !.finalVariants = products[BundleProduct].variants], 1)
    /\ UNCHANGED <<cartVars, textVars, listVars, appVars, products, metafields, setCalls>>

\* writeBundleMetafield for the variant of the loop; userErrors are not read
WriteNext ==
    /\ mapper.kind = "util"
    /\ mapper.pc = "loop"
    /\ LET variant == m.finalVariants[m.i]
           batch == <<Metafield(variant.id,
                                findByFirstValue(m.comp1Variants, variant.selectedOptions[1].value),
                                findByFirstValue(m.comp2Variants, variant.selectedOptions[1].value))>>
       IN \E accepted \in BOOLEAN :
            /\ setCalls' = Append(setCalls, [batch |-> batch, accepted |-> accepted,
                                           userErrors |-> IF accepted THEN <<>> ELSE <<OwnerInvalid>>,
             by |-> req.id, kind |-> mapper.kind])
            /\ metafields' = IF accepted THEN metafieldsSet(metafields, batch) ELSE metafields
    /\ LoopFrom(m, m.i + 1)
    /\ UNCHANGED <<cartVars, textVars, listVars, appVars, products>>

NextMapper ==
    \/ FetchAndMap \/ SetBatch
    \/ QueryNodes \/ WriteSingle \/ CreateOption \/ Refresh \/ DeleteDefault
    \/ CreateVariants \/ FinalFetch \/ WriteNext
SpecMapper == InitMapper /\ [][NextMapper]_vars

\* ---- the three reads of a route mapper, completing one by one
\* the reads Promise.all is given: the bundle product, component 1, component 2
ReadSlots == 1 .. 3
ReadTarget(locals, k) == IF k = 1 THEN BundleProduct ELSE locals.componentProductIds[k - 1]
\* the array Promise.all resolves to keeps the position of each promise
Slot(locals, k, variants) ==
    CASE k = 1 -> [locals EXCEPT !.bundleVariants = variants]
      [] k = 2 -> [locals EXCEPT !.comp1Variants = variants]
      [] OTHER -> [locals EXCEPT !.comp2Variants = variants]
\* the computation of each route mapper on the three lists it destructured
Computed(kind, bundleVariants, comp1Variants, comp2Variants) ==
    CASE kind = "sync" -> syncComponentsMetafields(bundleVariants, comp1Variants, comp2Variants)
      [] kind = "list" ->
           syncComponentsMetafieldsList(bundleVariants, comp1Variants, comp2Variants)
      [] OTHER -> writeBundleComponentsMetafields(bundleVariants, comp1Variants, comp2Variants)

InitReads ==
    /\ Start({<<>>})
    /\ ProbeIdle
    /\ AppIdle
    /\ ListIdle
    /\ m = NoLocals
    /\ setCalls = <<>>
    /\ result = NoResult
    /\ metafields = NoMetafields
    /\ \/ /\ mapper \in {[kind |-> k, pc |-> "reading"] : k \in {"sync", "list"}}
          /\ \E bundle \in RouteProducts(BundleProduct), a \in RouteProducts(ComponentA),
                b \in RouteProducts(ComponentB) :
               products = Catalog(bundle, a, b)
       \/ /\ mapper = [kind |-> "write", pc |-> "reading"]
          /\ \E a \in RouteProducts(ComponentA), b \in RouteProducts(ComponentB) :
               products = Catalog(DefaultProduct(BundleProduct), a, b)

\* results kept in the order in which the reads complete
ReadArrivesByCompletion ==
    /\ mapper.kind \in {"sync", "list", "write"}
    /\ mapper.pc = "reading"
    /\ \E k \in ReadSlots \ {m.arrived[j] : j \in DOMAIN m.arrived} :
         m' = [Slot(m, Len(m.arrived) + 1, fetchVariants(products, ReadTarget(m, k)))
                 EXCEPT !.arrived = Append(@, k)]
    /\ UNCHANGED <<cartVars, textVars, listVars, appVars, products, metafields, setCalls, mapper, result>>

\* one of the pending fetchVariants completes, in any order
ReadArrives ==
    /\ mapper.kind \in {"sync", "list", "write"}
    /\ mapper.pc = "reading"
    /\ \E k \in ReadSlots \ {m.arrived[j] : j \in DOMAIN m.arrived} :
         m' = [Slot(m, k, fetchVariants(products, ReadTarget(m, k)))
                 EXCEPT !.arrived = Append(@, k)]
    /\ UNCHANGED <<cartVars, textVars, listVars, appVars, products, metafields, setCalls, mapper, result>>

\* Promise.all resolves when the three reads have completed; the mapper then
\* computes up to its early return or to the metafieldsSet request
Joined ==
    /\ mapper.kind \in {"sync", "list", "write"}
    /\ mapper.pc = "reading"
    /\ Len(m.arrived) = 3
    /\ LET r == Computed(mapper.kind, m.bundleVariants, m.comp1Variants, m.comp2Variants)
       IN /\ m' = [m EXCEPT !.send = r.send]
          /\ IF r.send = <<>>
             THEN Done(r.result)
             ELSE /\ mapper' = [mapper EXCEPT !.pc = "set"]
                  /\ UNCHANGED result
    /\ UNCHANGED <<cartVars, textVars, listVars, appVars, products, metafields, setCalls>>

NextReads == ReadArrives \/ Joined \/ SetBatch
SpecReads == InitReads /\ [][NextReads]_vars

\* --------------------------------------------------- the norms, probed
MaxChars == 4
\* an upper-case and a lower-case letter, a digit, a space, punctuation, a
\* zero-width space and a byte-order mark
Chars == {"B", "a", "7", " ", "-", "u200B", "uFEFF"}
RawStrings == UNION {[1..n -> Chars] : n \in 0..MaxChars}

InitNorm ==
    /\ Start({<<>>})
    /\ MapperIdle
    /\ AppIdle
    /\ ListIdle
    /\ \E raw \in RawStrings : probe = [NoProbe EXCEPT !.raw = raw]

\* a norm is applied to the raw string, and once more to its own key
Keyed(route, key, again) ==
    /\ probe.matcher = "none"
    /\ probe' = [probe EXCEPT !.matcher = route, !.key = key, !.again = again]
    /\ UNCHANGED <<cartVars, mapperVars, appVars, listVars>>
\* norm of the edit page (app.bundles.$id.tsx)
NormEdit == Keyed("edit", norm(probe.raw), norm(norm(probe.raw)))
\* norm of the list page (app.bundles._index.tsx)
NormList == Keyed("list", normPlain(probe.raw), normPlain(normPlain(probe.raw)))
\* norm of the creation page (app.bundles.new.tsx)
NormNew == Keyed("new", normPlain(probe.raw), normPlain(normPlain(probe.raw)))

NextNorm == NormEdit \/ NormList \/ NormNew
SpecNorm == InitNorm /\ [][NextNorm]_vars

\* ------------------------------------------------ the requests of the app
MaxRequests == 2
MaxEdits == 1
sOne == <<"O", "n", "e">>
sTwo == <<"T", "w", "o">>
\* a shop whose products have a Color option, and a shop of plain products
ColorShop ==
    [p \in ShopProducts |->
        CASE p = ComponentA -> ColorProduct(p, <<sBlack, sBlue>>, <<>>)
          [] p = ComponentB -> ColorProduct(p, <<sBlue, sBlack>>, <<>>)
          [] p = ComponentC -> ColorProduct(p, <<sBlack>>, <<>>)
          [] OTHER -> MissingProduct]
PlainShop ==
    [p \in ShopProducts |->
        CASE p = ComponentC -> ColorProduct(p, <<sBlack>>, <<>>)
          [] p = BundleProduct -> MissingProduct
          [] OTHER -> DefaultProduct(p)]
\* the bundle a creation request left in the Color shop, and its mappings
CreatedBundle == ColorProduct(BundleProduct, <<sBlack, sBlue>>, <<>>)
CreatedMetafields ==
    [id \in {VariantId(BundleProduct, 1), VariantId(BundleProduct, 2)} |->
        IF id = VariantId(BundleProduct, 1)
        THEN Text(stringify(ArrV(<<StrV(VariantId(ComponentA, 1)), StrV(VariantId(ComponentB, 2))>>)))
        ELSE Text(stringify(ArrV(<<StrV(VariantId(ComponentA, 2)), StrV(VariantId(ComponentB, 1))>>)))]
BundleRow(title, productA, productB, now) ==
    [exists |-> TRUE, title |-> title, components |-> <<productA, productB>>,
     lastValidatedAt |-> now]
NoTitles == [p \in ShopProducts |-> <<>>]

\* what the forms of the pages may carry
Form(title, productA, productB) == [title |-> title, productA |-> productA, productB |-> productB]
CreateForms ==
    {Form(<<" ">> \o sOne, ComponentA, ComponentB), Form(sOne, ComponentA, ComponentC),
     Form(sOne, ComponentB, ComponentB), Form(sOne, <<>>, ComponentB)}
SaveForms ==
    {Form(sTwo \o <<" ">>, ComponentB, ComponentA), Form(sTwo, ComponentA, ComponentC),
     Form(sTwo, ComponentA, ComponentA), Form(<<" ">>, ComponentA, ComponentB),
     Form(sTwo, ComponentA, <<>>)}
\* !title || !productA || !productB (the forms always carry a handle)
missingFields(title, productA, productB) ==
    title = <<>> \/ productA = <<>> \/ productB = <<>>
\* no product is ever taken for the other
sameProductNever(productA, productB) == FALSE
\* productA === productB
sameProduct(productA, productB) == productA = productB

InitRoutes ==
    /\ Start({<<>>})
    /\ ProbeIdle
    /\ ListIdle
    /\ mapper = [kind |-> "none", pc |-> "idle"]
    /\ m = NoLocals
    /\ setCalls = <<>>
    /\ result = NoResult
    /\ req = NoRequest
    /\ parked = <<>>
    /\ env = [now |-> 1, requests |-> 0, edits |-> 0]
    /\ \/ /\ products \in {ColorShop, PlainShop}
          /\ metafields = NoMetafields
          /\ db = NoBundle
          /\ titles = NoTitles
       \/ /\ products = [ColorShop EXCEPT ![BundleProduct] = CreatedBundle]
          /\ metafields = CreatedMetafields
          /\ db = BundleRow(sOne, ComponentA, ComponentB, 0)
          /\ titles = [NoTitles EXCEPT ![BundleProduct] = sOne]

\* the request has not answered yet
InFlight(r) == r.pc \notin {"idle", "responded"}
OtherInFlight == parked # <<>> /\ InFlight(parked.req)
CanStart == ~InFlight(req) /\ env.requests < MaxRequests
\* what a request may not change when it fails
Snapshot(row, ts) ==
    [title |-> row.title, components |-> row.components,
     lastValidatedAt |-> row.lastValidatedAt, productTitle |-> ts[BundleProduct]]
Response(ok, message, cause) == [ok |-> ok, message |-> message, cause |-> cause]
\* a request arrives (authenticate.admin, formData, db.bundle.findFirst) and
\* goes to its first await, or is answered at once
Arrive(intent, form, position, response) ==
    /\ req' = [id |-> env.requests + 1, intent |-> intent, pc |-> position, form |-> form,
               bundle |-> db, before |-> Snapshot(db, titles), after |-> Snapshot(db, titles),
               overlapped |-> OtherInFlight, response |-> response]
    /\ parked' = IF OtherInFlight THEN [parked EXCEPT !.req.overlapped = TRUE] ELSE parked
    /\ env' = [env EXCEPT !.requests = @ + 1]
    /\ setCalls' = IF OtherInFlight THEN setCalls ELSE <<>>
Refuse(intent, form, message) ==
    /\ Arrive(intent, form, "responded", Response(FALSE, message, NoResult))
    /\ UNCHANGED <<mapper, m, result>>
\* the action returns its ActionData (or a redirect); row and ts are the
\* bundle row and the product titles it leaves
Return(response, row, ts) ==
    /\ req' = [req EXCEPT !.pc = "responded", !.response = response,
                          !.after = Snapshot(row, ts)]
    /\ mapper' = [kind |-> "none", pc |-> "idle"]
    /\ m' = NoLocals
    /\ result' = NoResult
\* the call of a variant mapper
Launch(kind, componentProductIds) ==
    /\ mapper' = [kind |-> kind, pc |-> "start"]
    /\ m' = [NoLocals EXCEPT !.componentProductIds = componentProductIds]
    /\ result' = NoResult

\* ---- the edit page (app.bundles.$id.tsx), intent "sync"
SyncRequest ==
    /\ CanStart
    /\ IF ~db.exists THEN Refuse("sync", <<>>, "Bundle not found.")
       ELSE IF Len(db.components) < 2
       THEN Refuse("sync", <<>>, "Bundle must have 2 component products to sync.")
       ELSE /\ Arrive("sync", <<>>, "mapping", <<>>)
            /\ Launch("sync", <<db.components[1], db.components[2]>>)
    /\ UNCHANGED <<cartVars, textVars, listVars, products, metafields, db, titles>>

\* syncComponentsMetafields has returned: the error is returned as it is, or
\* lastValidatedAt is set
SyncReturn ==
    /\ req.intent = "sync"
    /\ req.pc = "mapping"
    /\ mapper.pc = "done"
    /\ IF result.ok
       THEN LET row == [db EXCEPT !.lastValidatedAt = env.now] IN
            /\ db' = row
            /\ env' = [env EXCEPT !.now = @ + 1]
            /\ Return(Response(TRUE, "Synced components successfully.", result), row, titles)
       ELSE /\ Return(Response(FALSE, "", result), db, titles)
            /\ UNCHANGED <<db, env>>
    /\ UNCHANGED <<cartVars, textVars, listVars, products, metafields, setCalls, titles, parked>>

\* ---- the edit page, intent "save"
SaveRequest ==
    /\ CanStart
    /\ \E form \in SaveForms :
         LET title == trim(form.title) IN
         IF ~db.exists THEN Refuse("save", form, "Bundle not found.")
         ELSE IF missingFields(title, form.productA, form.productB)
         THEN Refuse("save", form, "Please enter a bundle name and choose 2 products.")
         ELSE IF sameProduct(form.productA, form.productB)
         THEN Refuse("save", form, "Please choose two different products.")
         ELSE /\ Arrive("save", [form EXCEPT !.title = title], "productUpdate", <<>>)
              /\ UNCHANGED <<mapper, m, result>>
    /\ UNCHANGED <<cartVars, textVars, listVars, products, metafields, db, titles>>

\* 1) productUpdate of the parent product's title
SaveTitle ==
    /\ req.intent = "save"
    /\ req.pc = "productUpdate"
    /\ \E accepted \in {FALSE} \cup {products[BundleProduct].exists} :
         IF accepted
         THEN /\ titles' = [titles EXCEPT ![BundleProduct] = req.form.title]
              /\ req' = [req EXCEPT !.pc = "dbUpdate"]
              /\ UNCHANGED <<mapper, m, result>>
         ELSE /\ Return(Response(FALSE, "Failed to update Shopify product title.", NoResult),
                        db, titles)
              /\ UNCHANGED titles
    /\ UNCHANGED <<cartVars, textVars, listVars, products, metafields, setCalls, db, env, parked>>

\* 2) db.bundle.update of title, components and lastValidatedAt, then the
\* call of syncComponentsMetafields on the new components
SaveDb ==
    /\ req.intent = "save"
    /\ req.pc = "dbUpdate"
    /\ db' = BundleRow(req.form.title, req.form.productA, req.form.productB, env.now)
    /\ env' = [env EXCEPT !.now = @ + 1]
    /\ req' = [req EXCEPT !.pc = "mapping"]
    /\ Launch("sync", <<req.form.productA, req.form.productB>>)
    /\ UNCHANGED <<cartVars, textVars, listVars, products, metafields, setCalls, titles, parked>>

\* 3) syncComponentsMetafields has returned
SaveReturn ==
    /\ req.intent = "save"
    /\ req.pc = "mapping"
    /\ mapper.pc = "done"
    /\ Return(IF result.ok
              THEN Response(TRUE, "Bundle updated and synced successfully.", result)
              ELSE Response(FALSE, "Saved changes, but sync failed: ", result), db, titles)
    /\ UNCHANGED <<cartVars, textVars, listVars, products, metafields, setCalls, db, titles, env, parked>>

\* ---- the creation pages: app.bundles.new.tsx ("create") and the page that
\* calls syncBundleVariants ("createUtil")
\* the form is validated and productCreate makes the parent product, a draft
\* with one default variant
CreateProduct ==
    /\ CanStart
    /\ ~products[BundleProduct].exists
    /\ ~db.exists
    /\ \E form \in CreateForms, flow \in {"create", "createUtil"} :
         LET title == trim(form.title) IN
         IF missingFields(title, form.productA, form.productB)
         THEN /\ Refuse(flow, form, "Please enter a bundle name + handle and choose 2 products.")
              /\ UNCHANGED <<products, titles>>
         ELSE IF sameProduct(form.productA, form.productB)
         THEN /\ Refuse(flow, form, "Please choose two different products.")
              /\ UNCHANGED <<products, titles>>
         ELSE \E accepted \in BOOLEAN :
           IF ~accepted
           THEN /\ Refuse(flow, form, "Product creation failed.")
                /\ UNCHANGED <<products, titles>>
           ELSE /\ products' = [products EXCEPT ![BundleProduct] = DefaultProduct(BundleProduct)]
                /\ titles' = [titles EXCEPT ![BundleProduct] = title]
                /\ IF flow = "create"
                   THEN /\ Arrive(flow, [form EXCEPT !.title = title], "mapping", <<>>)
                        /\ Launch("write", <<form.productA, form.productB>>)
                   ELSE /\ Arrive(flow, [form EXCEPT !.title = title], "dbCreate", <<>>)
                        /\ UNCHANGED <<mapper, m, result>>
    /\ UNCHANGED <<cartVars, textVars, listVars, metafields, db>>

\* app.bundles.new.tsx, the mapping failed: best-effort productDelete of the
\* parent product, whose failure is ignored
CreateCleanup ==
    /\ req.intent = "create"
    /\ req.pc = "mapping"
    /\ mapper.pc = "done"
    /\ ~result.ok
    /\ \E deleted \in BOOLEAN :
         LET gone == {products[BundleProduct].variants[i].id :
                         i \in DOMAIN products[BundleProduct].variants}
             ts == IF deleted THEN [titles EXCEPT ![BundleProduct] = <<>>] ELSE titles
         IN /\ products' = IF deleted THEN [products EXCEPT ![BundleProduct] = MissingProduct]
                           ELSE products
            /\ metafields' = IF deleted
                             THEN [id \in DOMAIN metafields \ gone |-> metafields[id]]
                             ELSE metafields
            /\ titles' = ts
            /\ Return(Response(FALSE, "Bundle created but mapping failed: ", result), db, ts)
    /\ UNCHANGED <<cartVars, textVars, listVars, setCalls, db, env, parked>>

\* app.bundles.new.tsx, the mapping succeeded: db.bundle.create, redirect
CreateDb ==
    /\ req.intent = "create"
    /\ req.pc = "mapping"
    /\ mapper.pc = "done"
    /\ result.ok
    /\ LET row == BundleRow(titles[BundleProduct], req.form.productA, req.form.productB, 0) IN
         /\ db' = row
         /\ Return(Response(TRUE, "redirect", result), row, titles)
    /\ UNCHANGED <<cartVars, textVars, listVars, products, metafields, setCalls, titles, env, parked>>

\* the other creation page: db.bundle.create first, then syncBundleVariants
CreateUtilDb ==
    /\ req.intent = "createUtil"
    /\ req.pc = "dbCreate"
    /\ db' = BundleRow(titles[BundleProduct], req.form.productA, req.form.productB, 0)
    /\ req' = [req EXCEPT !.pc = "mapping"]
    /\ Launch("util", <<req.form.productA, req.form.productB>>)
    /\ UNCHANGED <<cartVars, textVars, listVars, products, metafields, setCalls, titles, env, parked>>

\* syncBundleVariants has returned or thrown: redirect, or the caught error
CreateUtilReturn ==
    /\ req.intent = "createUtil"
    /\ req.pc = "mapping"
    /\ mapper.pc = "done"
    /\ Return(IF result.ok THEN Response(TRUE, "redirect", result)
              ELSE Response(FALSE, "Bundle created but variant sync failed.", result), db, titles)
    /\ UNCHANGED <<cartVars, textVars, listVars, products, metafields, setCalls, db, titles, env, parked>>

\* ---- scheduling and the world around the app
\* the server turns to the other request in flight, or is free for a new one
Switch ==
    /\ InFlight(req) \/ OtherInFlight
    /\ parked' = IF InFlight(req)
                 THEN [mapper |-> mapper, m |-> m, result |-> result, req |-> req]
                 ELSE <<>>
    /\ IF parked = <<>>
       THEN /\ mapper' = [kind |-> "none", pc |-> "idle"]
            /\ m' = NoLocals
            /\ result' = NoResult
            /\ req' = NoRequest
       ELSE /\ mapper' = parked.mapper
            /\ m' = parked.m
            /\ result' = parked.result
            /\ req' = parked.req
    /\ UNCHANGED <<cartVars, textVars, listVars, products, metafields, setCalls, db, titles, env>>

\* the merchant deletes the first variant of component A and creates it anew
MerchantEdit ==
    /\ env.edits < MaxEdits
    /\ Len(products[ComponentA].variants) > 1
    /\ LET product == products[ComponentA]
           renewed == VariantNode(VariantId(ComponentA, product.created + 1),
                                  product.variants[1].selectedOptions)
       IN products' = [products EXCEPT ![ComponentA] =
                         [product EXCEPT !.variants = <<renewed>> \o Tail(product.variants),
                                         !.created = @ + 1]]
    /\ env' = [env EXCEPT !.edits = @ + 1]
    /\ UNCHANGED <<cartVars, textVars, listVars, metafields, mapper, m, setCalls, result, db, titles,
                   req, parked>>

NextRoutes ==
    \/ SyncRequest \/ SyncReturn
    \/ SaveRequest \/ SaveTitle \/ SaveDb \/ SaveReturn
    \/ CreateProduct \/ CreateCleanup \/ CreateDb \/ CreateUtilDb \/ CreateUtilReturn
    \/ FetchAndMap \/ SetBatch
    \/ QueryNodes \/ WriteSingle \/ CreateOption \/ Refresh \/ DeleteDefault
    \/ CreateVariants \/ FinalFetch \/ WriteNext
    \/ Switch
SpecRoutes == InitRoutes /\ [][NextRoutes]_vars

\* ---- creation and sync requests in the Color shop, while the merchant
\* edits a component
InitRace ==
    /\ InitRoutes
    /\ products # PlainShop
NextRace ==
    \/ SyncRequest \/ SyncReturn
    \/ CreateProduct \/ CreateCleanup \/ CreateUtilDb \/ CreateUtilReturn
    \/ FetchAndMap \/ SetBatch
    \/ QueryNodes \/ CreateOption \/ Refresh \/ DeleteDefault
    \/ CreateVariants \/ FinalFetch \/ WriteNext
    \/ Switch \/ MerchantEdit
SpecRace == InitRace /\ [][NextRace]_vars

\* ---------------------------------------------------- the list of bundles
MaxBundles == 3
ShopOne == "one.myshopify.com"
ShopTwo == "two.myshopify.com"
Shops == {ShopOne, ShopTwo}
BundleIds == 1 .. MaxBundles
\* the shop through which bundle i and its parent product were created
OwnerOf(i) == IF i = 2 THEN ShopTwo ELSE ShopOne
ParentOf(i) == Gid("Product/", ToString(90 + i))
ParentIds == {ParentOf(i) : i \in BundleIds}
\* the Bundle row of bundle i (id, shop, parentProductId)
Row(i) == [id |-> i, shop |-> OwnerOf(i), parentProductId |-> ParentOf(i)]
Tables == {[i \in S |-> Row(i)] : S \in SUBSET BundleIds}
\* the parent product of bundle i with one variant per flag; the flag says
\* whether the variant carries the simple_bundler/components metafield
ParentVariantId(i, k) == Gid("ProductVariant/", ToString(100 * i + k))
ParentProduct(i, flags) ==
    [exists |-> TRUE,
     options |-> <<[name |-> sTitle, optionValues |-> <<sDefaultTitle>>]>>,
     variants |-> [k \in DOMAIN flags |->
                     VariantNode(ParentVariantId(i, k), <<Option(sTitle, sDefaultTitle)>>)],
     created |-> Len(flags)]
\* the rows of a set of bundle ids, newest first (orderBy createdAt desc)
RECURSIVE NewestFirst(_, _)
NewestFirst(rows, ids) ==
    IF ids = {} THEN <<>>
    ELSE LET newest == CHOOSE i \in ids : \A j \in ids : j <= i
         IN <<rows[newest]>> \o NewestFirst(rows, ids \ {newest})
\* db.bundle.findMany({ where: { shop } })
findMany(rows, shop) == NewestFirst(rows, {i \in DOMAIN rows : rows[i].shop = shop})
\* query ProductsById through the admin client of a shop: the nodes of the
\* asked ids that are products of that shop, null for the others
nodesOf(catalog, rows, shop, ids) ==
    {ids[k] : k \in {j \in DOMAIN ids :
        /\ catalog[ids[j]].exists
        /\ \E i \in BundleIds : ParentOf(i) = ids[j] /\ OwnerOf(i) = shop}}
\* every asked id counted as missing
missingParentProductIdsAsked(ids, returnedIds) == ids
\* the asked ids that did not come back
missingParentProductIds(ids, returnedIds) ==
    LET Gone(askedId) == askedId \notin returnedIds IN SelectSeq(ids, Gone)
\* db.bundle.deleteMany({ where: { shop, parentProductId: { in: missing } } })
deleteMany(rows, shop, missing) ==
    LET kept == {i \in DOMAIN rows :
                    ~(/\ rows[i].shop = shop
                      /\ \E k \in DOMAIN missing : missing[k] = rows[i].parentProductId)}
    IN [i \in kept |-> rows[i]]
\* the rows the loader returns: the bundles found, without the ghosts
rowsOf(bundles, missing) ==
    LET Shown(b) == \A k \in DOMAIN missing : missing[k] # b.parentProductId
    IN SelectSeq(bundles, Shown)

\* one variant list per parent product of a listed bundle
FlagLists == UNION {[1..n -> BOOLEAN] : n \in 0..MaxVariants}
InitList ==
    /\ Start({<<>>})
    /\ ProbeIdle
    /\ AppIdle
    /\ mapper = [kind |-> "none", pc |-> "idle"]
    /\ m = NoLocals
    /\ setCalls = <<>>
    /\ result = NoResult
    /\ page = NoPage
    /\ table \in Tables
    /\ \E flags \in [BundleIds -> FlagLists], gone \in SUBSET BundleIds :
         /\ \A i \in BundleIds \ DOMAIN table : i \in gone /\ flags[i] = <<>>
         /\ \A i \in gone : flags[i] = <<>>
         /\ products = [p \in ParentIds |->
                          LET i == CHOOSE j \in BundleIds : ParentOf(j) = p
                          IN IF i \in gone THEN MissingProduct ELSE ParentProduct(i, flags[i])]
         /\ metafields = [id \in {ParentVariantId(i, k) : i \in BundleIds \ gone,
                                                          k \in 1..MaxVariants}
                                 \cap UNION {{ParentVariantId(i, k) :
                                                k \in {j \in DOMAIN flags[i] : flags[i][j]}} :
                                             i \in BundleIds \ gone}
                            |-> StaleMapping]

\* ---- the list page that cleans up after itself (loader of the page with
\* the automatic deletion)
\* authenticate.admin and db.bundle.findMany of the session's shop
CleanFind ==
    /\ page.pc = "idle"
    /\ \E shop \in Shops :
         LET bundles == findMany(table, shop) IN
         page' = [NoPage EXCEPT !.kind = "clean", !.shop = shop, !.bundles = bundles,
                                !.before = table,
                                !.pc = IF Len(bundles) > 0 THEN "nodes" ELSE "done"]
    /\ UNCHANGED <<cartVars, mapperVars, textVars, appVars, table>>

\* the platform answers ProductsById; without missing parents the rows are
\* returned
CleanNodes ==
    /\ page.kind = "clean"
    /\ page.pc = "nodes"
    /\ LET ids == [k \in DOMAIN page.bundles |-> page.bundles[k].parentProductId]
           returnedIds == nodesOf(products, table, page.shop, ids)
           missing == missingParentProductIds(ids, returnedIds)
       IN page' = [page EXCEPT !.existing = returnedIds, !.missing = missing,
                               !.rows = rowsOf(page.bundles, missing),
                               !.pc = IF Len(missing) > 0 THEN "deleteMany" ELSE "done"]
    /\ UNCHANGED <<cartVars, mapperVars, textVars, appVars, table>>

\* db.bundle.deleteMany of the ghosts, then the rows are returned
CleanDeleteMany ==
    /\ page.kind = "clean"
    /\ page.pc = "deleteMany"
    /\ table' = deleteMany(table, page.shop, page.missing)
    /\ page' = [page EXCEPT !.pc = "done"]
    /\ UNCHANGED <<cartVars, mapperVars, textVars, appVars>>

\* ---- the list page with the health column (loader of
\* app.bundles._index.tsx)
\* variants(first: 100) of PRODUCT_WITH_MAPPING_CHECK
MappingCheckFirst == 100
firstNodes(nodes, n) == SubSeq(nodes, 1, IF Len(nodes) < n THEN Len(nodes) ELSE n)
\* json?.data?.product?.variants?.nodes ?? [] of the product as the admin
\* client of the shop sees it
variantNodes(catalog, shop, pid) ==
    IF /\ catalog[pid].exists
       /\ \E i \in BundleIds : ParentOf(i) = pid /\ OwnerOf(i) = shop
    THEN firstNodes(catalog[pid].variants, MappingCheckFirst)
    ELSE <<>>
\* one variant with the metafield is enough
allHaveMetafieldSome(nodes, fields) == \E k \in DOMAIN nodes : nodes[k].id \in DOMAIN fields
\* nodes.every((v) => Boolean(v?.metafield?.id))
allHaveMetafield(nodes, fields) == \A k \in DOMAIN nodes : nodes[k].id \in DOMAIN fields
\* the body of one health check; threw says that the query failed
mappingOf(nodes, fields, threw) ==
    IF threw THEN "needs_attention"
    ELSE IF Len(nodes) = 0 THEN "needs_attention"
    ELSE IF allHaveMetafield(nodes, fields) THEN "ok"
    ELSE "needs_attention"
\* mappingByProductId[b.parentProductId] ?? "needs_attention"
healthOf(mappingByProductId, pid) ==
    IF pid \in DOMAIN mappingByProductId THEN mappingByProductId[pid] ELSE "needs_attention"

\* authenticate.admin and db.bundle.findMany of the session's shop
HealthFind ==
    /\ page.pc = "idle"
    /\ \E shop \in Shops :
         LET bundles == findMany(table, shop) IN
         page' = [NoPage EXCEPT !.kind = "health", !.shop = shop, !.bundles = bundles,
                                !.before = table, !.answer = {},
                                !.pc = IF Len(bundles) > 0 THEN "nodes" ELSE "rows"]
    /\ UNCHANGED <<cartVars, mapperVars, textVars, appVars, table>>

\* the platform answers ProductsById (titles, handles and statuses)
HealthNodes ==
    /\ page.kind = "health"
    /\ page.pc = "nodes"
    /\ LET ids == [k \in DOMAIN page.bundles |-> page.bundles[k].parentProductId]
       IN page' = [page EXCEPT !.existing = nodesOf(products, table, page.shop, ids),
                               !.pc = "checks"]
    /\ UNCHANGED <<cartVars, mapperVars, textVars, appVars, table>>

\* one of the health checks of Promise.all is answered, or throws
HealthCheck ==
    /\ page.kind = "health"
    /\ page.pc = "checks"
    /\ \E k \in DOMAIN page.bundles, threw \in BOOLEAN :
         LET pid == page.bundles[k].parentProductId
             nodes == variantNodes(products, page.shop, pid)
         IN /\ pid \notin DOMAIN page.health
            /\ page' = [page EXCEPT
                          !.health = [p \in DOMAIN page.health \cup {pid} |->
                                        IF p = pid THEN mappingOf(nodes, metafields, threw)
                                        ELSE page.health[p]],
                          !.answer = IF threw THEN @ \cup {pid} ELSE @]
    /\ UNCHANGED <<cartVars, mapperVars, textVars, appVars, table>>

\* every check has settled: the rows are built and returned
HealthRows ==
    /\ page.kind = "health"
    /\ \/ page.pc = "rows"
       \/ /\ page.pc = "checks"
          /\ \A k \in DOMAIN page.bundles : page.bundles[k].parentProductId \in DOMAIN page.health
    /\ page' = [page EXCEPT
                  !.rows = [k \in DOMAIN page.bundles |->
                              [id |-> page.bundles[k].id,
                               health |-> healthOf(page.health, page.bundles[k].parentProductId)]],
                  !.pc = "done"]
    /\ UNCHANGED <<cartVars, mapperVars, textVars, appVars, table>>

NextList ==
    \/ CleanFind \/ CleanNodes \/ CleanDeleteMany
    \/ HealthFind \/ HealthNodes \/ HealthCheck \/ HealthRows
SpecList == InitList /\ [][NextList]_vars

\* ---- the delete requests of the list pages
MaxErrors == 2
sProductDoesNotExist == <<"P", "r", "o", "d", "u", "c", "t", " ", "d", "o", "e", "s", " ", "n", "o", "t", " ", "e", "x", "i", "s", "t">>
sAccessDenied == <<"A", "c", "c", "e", "s", "s", " ", "d", "e", "n", "i", "e", "d">>
sDoesNotExist == <<"d", "o", "e", "s", " ", "n", "o", "t", " ", "e", "x", "i", "s", "t">>
sCouldNotFind == <<"c", "o", "u", "l", "d", " ", "n", "o", "t", " ", "f", "i", "n", "d">>
sNotFound == <<"n", "o", "t", " ", "f", "o", "u", "n", "d">>
\* the userErrors of a productDelete answer; cause is what the platform means
MissingError == [field |-> "id", message |-> sProductDoesNotExist, cause |-> "missing"]
DeniedError == [field |-> "id", message |-> sAccessDenied, cause |-> "denied"]
ErrorLists == UNION {[1..n -> {MissingError, DeniedError}] : n \in 1..MaxErrors}
NoAnswer == [kind |-> "none", userErrors |-> <<>>]
\* mutation productDelete through the admin client of a shop: what it may
\* answer for a product that is (visible) or is not a product of that shop
Answers(visible) ==
    {[kind |-> "threw", userErrors |-> <<>>]}
      \cup {[kind |-> "deleted", userErrors |-> <<>>] : x \in {y \in {1} : visible}}
      \cup {[kind |-> "userErrors", userErrors |-> es] :
              es \in {l \in ErrorLists :
                        \E k \in DOMAIN l :
                          l[k].cause = (IF visible THEN "denied" ELSE "missing")}}
\* db.bundle.findFirst({ where: { id, shop } }); <<>> when there is none
findFirst(rows, id, shop) ==
    IF id \in DOMAIN rows /\ rows[id].shop = shop THEN rows[id] ELSE <<>>
\* db.bundle.findUnique({ where: { id } })
findUnique(rows, id) == IF id \in DOMAIN rows THEN rows[id] ELSE <<>>
\* bundle.bundleProductId ?? bundle.bundleProductGid ?? bundle.productId ?? ""
rawProductId(bundle) ==
    IF "bundleProductId" \in DOMAIN bundle THEN bundle.bundleProductId
    ELSE IF "bundleProductGid" \in DOMAIN bundle THEN bundle.bundleProductGid
    ELSE IF "productId" \in DOMAIN bundle THEN bundle.productId
    ELSE <<>>
\* app.bundles._index.tsx: the first message names a missing product
looksLikeMissing(userErrors) ==
    LET msg == toLowerCase(userErrors[1].message)
    IN includes(msg, sDoesNotExist) \/ includes(msg, sCouldNotFind) \/ includes(msg, sNotFound)
\* the other list page: /does not exist|not found|could not find/i on the
\* joined messages
isMissing(userErrors) ==
    LET msg == toLowerCase(trim(join([k \in DOMAIN userErrors |-> userErrors[k].message],
                                     <<",", " ">>)))
    IN includes(msg, sDoesNotExist) \/ includes(msg, sNotFound) \/ includes(msg, sCouldNotFind)
\* db.bundle.delete({ where: { id } })
deleteRow(rows, id) == [i \in DOMAIN rows \ {id} |-> rows[i]]

\* tables whose parent products exist or are gone
InitDelete ==
    /\ Start({<<>>})
    /\ ProbeIdle
    /\ AppIdle
    /\ mapper = [kind |-> "none", pc |-> "idle"]
    /\ m = NoLocals
    /\ setCalls = <<>>
    /\ result = NoResult
    /\ page = NoPage
    /\ table \in Tables
    /\ metafields = NoMetafields
    /\ \E gone \in SUBSET BundleIds :
         products = [p \in ParentIds |->
                       LET i == CHOOSE j \in BundleIds : ParentOf(j) = p
                       IN IF i \in gone THEN MissingProduct ELSE ParentProduct(i, <<FALSE>>)]

\* the action has answered
Answered(ok, message) ==
    [page EXCEPT !.pc = "done", !.response = [ok |-> ok, message |-> message]]
\* a delete request arrives at one of the list pages: authenticate.admin,
\* formData, and the lookup of the bundle; id 0 is the empty id
DeleteRequest ==
    /\ page.pc = "idle"
    /\ \E kind \in {"index", "listPage", "plainList", "new"}, shop \in Shops,
          id \in 0..MaxBundles :
         LET existing == IF kind = "plainList" THEN findUnique(table, id)
                         ELSE findFirst(table, id, shop)
             begun == [NoPage EXCEPT !.kind = kind, !.shop = shop, !.id = id,
                                     !.existing = existing, !.before = table,
                                     !.catalog = products, !.answer = NoAnswer]
         IN page' =
              IF id = 0
              THEN [begun EXCEPT !.pc = "done",
                                 !.response = [ok |-> FALSE, message |-> "Invalid request."]]
              ELSE IF existing = <<>>
              THEN [begun EXCEPT !.pc = "done",
                                 !.response = [ok |-> FALSE, message |-> "Bundle not found."]]
              ELSE IF kind = "new" THEN [begun EXCEPT !.pc = "dbDelete"]
              ELSE IF kind = "plainList"
              THEN [begun EXCEPT !.pc = IF rawProductId(existing) # <<>>
                                        THEN "productDelete" ELSE "dbDelete"]
              ELSE [begun EXCEPT !.pc = "productDelete"]
    /\ UNCHANGED <<cartVars, mapperVars, textVars, appVars, table>>

\* the platform answers productDelete, and the action decides whether the
\* row goes
ProductDeleteAnswer ==
    /\ page.pc = "productDelete"
    /\ LET id == IF page.kind = "plainList" THEN rawProductId(page.existing)
                 ELSE page.existing.parentProductId
           visible == /\ id \in DOMAIN products
                      /\ products[id].exists
                      /\ \E i \in BundleIds : ParentOf(i) = id /\ OwnerOf(i) = page.shop
       IN \E answer \in Answers(visible) :
            /\ products' = IF answer.kind = "deleted"
                           THEN [products EXCEPT ![id] = MissingProduct]
                           ELSE products
            /\ LET errors == answer.userErrors
                   heard == [page EXCEPT !.answer = answer]
               IN page' =
                    CASE page.kind = "index" ->
                           IF answer.kind = "userErrors" /\ ~looksLikeMissing(errors)
                           THEN [heard EXCEPT !.pc = "done",
                                   !.response = [ok |-> FALSE, message |-> errors[1].message]]
                           ELSE [heard EXCEPT !.pc = "dbDelete"]
                      [] page.kind = "listPage" ->
                           IF answer.kind = "userErrors" /\ ~isMissing(errors)
                           THEN [heard EXCEPT !.pc = "done",
                                   !.response = [ok |-> FALSE,
                                                 message |-> trim(join([k \in DOMAIN errors |-> errors[k].message], <<",", " ">>))]]
                           ELSE [heard EXCEPT !.pc = "dbDelete"]
                      [] OTHER ->
                           IF answer.kind = "threw"
                           THEN [heard EXCEPT !.pc = "done",
                                   !.response = [ok |-> FALSE, message |-> "thrown"]]
                           ELSE IF answer.kind = "userErrors"
                           THEN [heard EXCEPT !.pc = "done",
                                   !.response = [ok |-> FALSE,
                                                 message |-> "Shopify product could not be deleted: "]]
                           ELSE [heard EXCEPT !.pc = "dbDelete"]
    /\ UNCHANGED <<cartVars, textVars, appVars, table, metafields, mapper, m, setCalls, result>>

\* db.bundle.delete of the row, and the answer
DeleteRow ==
    /\ page.pc = "dbDelete"
    /\ table' = deleteRow(table, page.id)
    /\ page' = Answered(TRUE, "Bundle deleted.")
    /\ UNCHANGED <<cartVars, mapperVars, textVars, appVars>>

NextDelete == DeleteRequest \/ ProductDeleteAnswer \/ DeleteRow
SpecDelete == InitDelete /\ [][NextDelete]_vars

\* ------------------------------------- from the mapper to the checkout
\* a route mapper is invoked on a bundle that has no mappings yet
InitRound ==
    /\ Start({<<>>})
    /\ ProbeIdle
    /\ AppIdle
    /\ ListIdle
    /\ m = NoLocals
    /\ setCalls = <<>>
    /\ result = NoResult
    /\ metafields = NoMetafields
    /\ \/ /\ mapper \in {[kind |-> k, pc |-> "start"] : k \in {"sync", "list"}}
          /\ \E bundle \in RouteProducts(BundleProduct), a \in RouteProducts(ComponentA),
                b \in RouteProducts(ComponentB) :
               products = Catalog(bundle, a, b)
       \/ /\ mapper = [kind |-> "write", pc |-> "start"]
          /\ \E a \in RouteProducts(ComponentA), b \in RouteProducts(ComponentB) :
               products = Catalog(DefaultProduct(BundleProduct), a, b)

\* a buyer puts a variant of the bundle product into the cart: the platform
\* hands the function the line with the variant's components metafield as
\* merch.componentReference
AddToCart ==
    /\ mapper.pc = "done"
    /\ pc = "idle"
    /\ input = <<>>
    /\ \E i \in DOMAIN products[BundleProduct].variants, q \in 1..MaxQty :
         LET id == products[BundleProduct].variants[i].id
             raw == IF id \in DOMAIN metafields THEN metafields[id] ELSE Absent
         IN input' = <<WithId(VariantLine(id, q, raw), 1)>>
    /\ UNCHANGED <<pc, first, output, others, NO_CHANGES, nextRef, mapperVars, textVars, listVars, appVars>>

NextRound == FetchAndMap \/ SetBatch \/ AddToCart \/ Run
SpecRound == InitRound /\ [][NextRound]_vars

\* ------------------------------------------------- the matchers, probed
MaxOptions == 2
ProbeValues == {sBlack, sBlue, sObsidianBlack, sDash, sBlackZeroWidth}
\* variants of up to MaxOptions options, the variant without options included
ProbeVariants ==
    {VariantNode(Gid("ProductVariant/", "1"), [i \in DOMAIN vs |-> Option(sColor, vs[i])]) :
        vs \in UNION {[1..n -> ProbeValues] : n \in 0..MaxOptions}}

InitMatch ==
    /\ Start({<<>>})
    /\ MapperIdle
    /\ AppIdle
    /\ ListIdle
    /\ \E bv \in ProbeVariants, cv \in ProbeVariants :
         probe = [NoProbe EXCEPT !.bundleVar = bv, !.componentVar = cv]

Answer(matcher, matched) ==
    /\ probe.matcher = "none"
    /\ probe' = [probe EXCEPT !.matcher = matcher, !.matched = matched]
    /\ UNCHANGED <<cartVars, mapperVars, appVars, listVars>>
\* matchesByValues of the edit page (app.bundles.$id.tsx)
MatchEdit == Answer("edit", matchesByValues(probe.bundleVar, probe.componentVar))
\* matchesByValues of the list page (app.bundles._index.tsx)
MatchList == Answer("list", matchesByValuesList(probe.bundleVar, probe.componentVar))
\* matchesByValues of the creation page (app.bundles.new.tsx)
MatchNew == Answer("new", matchesByValuesNew(probe.bundleVar, probe.componentVar))

NextMatch == MatchEdit \/ MatchList \/ MatchNew
SpecMatch == InitMatch /\ [][NextMatch]_vars

\* the function has returned on the observed cart
Called == pc \in {"ran", "reran"}

\* ------------------------------------------------- the payloads, described
\* a payload that is the JSON text of array a
IsTextOf(raw, a) == raw.present /\ raw.text = stringify(a)
Scalars == {ObjV, StrV(V1), NumV, NullV}
JsonTexts == {stringify(v) : v \in Arrays \cup Scalars}
IsGidString(v) == v.k = "string" /\ startsWith(v.s, <<"gid://">>)
IsVariantGid(s) == startsWith(s, <<"gid://", "shopify/", "ProductVariant/">>)
\* the strings of array a that carry the gid:// prefix
GidCount(a) == Cardinality({i \in DOMAIN a.items : IsGidString(a.items[i])})

\* absent or empty, not JSON, JSON that is not an array, an array without
\* strings, or an array whose strings lack the prefix
MalformedPayload(raw) ==
    \/ ~raw.present
    \/ raw.text = <<>>
    \/ raw.text \notin JsonTexts
    \/ \E v \in Scalars : IsTextOf(raw, v)
    \/ \E a \in Arrays : IsTextOf(raw, a) /\ GidCount(a) = 0

\* the line is one the transform expands
Expandable(line) ==
    /\ line.typename = "ProductVariant"
    /\ \E a \in Arrays : IsTextOf(line.raw, a) /\ GidCount(a) > 0

\* the operations of the latest result that replace the line
OpsFor(line) ==
    LET ForLine(op) == op.lineExpand.cartLineId = line.id
    IN SelectSeq(output.value.operations, ForLine)

HasAttr(item, key, value) ==
    \E k \in DOMAIN item.attributes :
        item.attributes[k].key = key /\ item.attributes[k].value = value

\* --------------------------------------------------------------- claims
\* C1: a cart in which no line qualifies for expansion (the empty cart
\* included) gets the canonical NO_CHANGES result with no operations, and
\* every such call in a sequence of calls returns that same module-level
\* object, never a newly built one.
C1_NoChangesSingleton ==
    (Called /\ \A i \in DOMAIN input : ~Expandable(input[i]))
        => /\ ~output.raised
           /\ output.value = [ref |-> NoChangesRef, operations |-> <<>>]
           /\ first.value.ref = output.value.ref
C1_Witness ==
    /\ pc = "reran"
    /\ others > 0
    /\ Len(input) > 0
    /\ \A i \in DOMAIN input : ~Expandable(input[i])
    /\ output.value.ref = NoChangesRef

\* C2: a ProductVariant line of quantity q whose payload is an array of two
\* Variant ids gets exactly one lineExpand operation, with exactly two items,
\* in payload order, each of quantity q and each carrying the attribute
\* _bundle_parent_variant_id = the line's variant id.
C2_TwoIdExpansion ==
    Called =>
      \A i \in DOMAIN input : \A a, b \in {V1, V2} :
        (/\ input[i].typename = "ProductVariant"
         /\ IsTextOf(input[i].raw, ArrV(<<StrV(a), StrV(b)>>)))
          => LET ops == OpsFor(input[i]) IN
             /\ Len(ops) = 1
             /\ LET items == ops[1].lineExpand.expandedCartItems IN
                /\ Len(items) = 2
                /\ items[1].merchandiseId = a
                /\ items[2].merchandiseId = b
                /\ \A k \in 1..2 :
                     /\ items[k].quantity = input[i].quantity
                     /\ HasAttr(items[k], "_bundle_parent_variant_id", input[i].merchId)
C2_Witness ==
    /\ pc = "ran"
    /\ \E i \in DOMAIN input :
         /\ input[i].typename = "ProductVariant"
         /\ input[i].quantity = 2
         /\ IsTextOf(input[i].raw, ArrV(<<StrV(V2), StrV(V1)>>))
         /\ Len(OpsFor(input[i])) = 1

\* C3: a line whose payload is malformed (absent or empty, not JSON, JSON
\* that is not an array, an array without strings, an array whose strings
\* lack the id prefix) contributes no operation.
C3_MalformedSkipped ==
    Called =>
      \A i \in DOMAIN input :
        MalformedPayload(input[i].raw) => OpsFor(input[i]) = <<>>
C3_Witness ==
    /\ pc = "ran"
    /\ Len(input) = 2
    /\ IsTextOf(input[1].raw, ArrV(<<StrV(X1)>>))
    /\ Expandable(input[2])
    /\ Len(output.value.operations) = 1

\* C4: a line whose payload yields fewer than 2 ids after parsing and
\* filtering (exactly 1 in particular) contributes no operation.
C4_FewerThanTwoSkipped ==
    Called =>
      \A i \in DOMAIN input : \A a \in Arrays :
        (IsTextOf(input[i].raw, a) /\ GidCount(a) < 2) => OpsFor(input[i]) = <<>>

\* C5: the transform never raises, whatever the kind of each line and
\* whatever is found as payload; a malformed line is skipped and the
\* operations are those of the cart without its malformed lines.
WellFormed(line) == ~MalformedPayload(line.raw)
C5_NeverRaises ==
    Called =>
      /\ ~output.raised
      /\ \A i \in DOMAIN input :
           MalformedPayload(input[i].raw) => OpsFor(input[i]) = <<>>
      /\ output.value.operations =
           cartTransformRun(SelectSeq(input, WellFormed), NO_CHANGES, 0).value.operations
C5_Witness ==
    /\ pc = "ran"
    /\ Len(input) = 2
    /\ input[1].typename = "ProductVariant"
    /\ input[1].raw.present
    /\ input[1].raw.text \notin JsonTexts \cup {<<>>}
    /\ Expandable(input[2])
    /\ ~output.raised
    /\ Len(output.value.operations) = 1

\* C6: the operations come in cart line order, one per expandable line and
\* none for another line: their cartLineId values are the ids of the
\* expandable lines, in input order.
C6_LineOrder ==
    Called =>
      LET expandable == SelectSeq(input, Expandable)
          ops == output.value.operations
      IN /\ Len(ops) = Len(expandable)
         /\ \A k \in DOMAIN ops : ops[k].lineExpand.cartLineId = expandable[k].id
C6_Witness ==
    /\ pc = "ran"
    /\ Len(input) = 2
    /\ Expandable(input[1]) /\ Expandable(input[2])
    /\ Len(output.value.operations) = 2

\* C7: no hidden state: a second call on the same cart, with calls on other
\* carts in between, returns what the first call returned.
C7_SameOutputTwice ==
    pc = "reran" =>
      /\ output.raised = first.raised
      /\ output.value.operations = first.value.operations
      /\ (output.value.ref = NoChangesRef) = (first.value.ref = NoChangesRef)
C7_Witness ==
    /\ pc = "reran"
    /\ others > 0
    /\ Len(output.value.operations) > 0

\* C8: every merchandiseId of an emitted expansion has the Variant global-id
\* format; a string of another entity type or without the prefix never
\* becomes a merchandiseId.
C8_OnlyVariantIds ==
    Called =>
      \A k \in DOMAIN output.value.operations :
        LET items == output.value.operations[k].lineExpand.expandedCartItems IN
        \A j \in DOMAIN items : IsVariantGid(items[j].merchandiseId)

\* C9: no operation and no replacement item carries a price override.
C9_NoPriceOverride ==
    Called =>
      \A k \in DOMAIN output.value.operations :
        LET op == output.value.operations[k].lineExpand IN
        /\ "price" \notin DOMAIN op
        /\ \A j \in DOMAIN op.expandedCartItems :
             /\ "price" \notin DOMAIN op.expandedCartItems[j]
             /\ "fixedPricePerUnit" \notin DOMAIN op.expandedCartItems[j]
C9_Witness ==
    /\ pc = "ran"
    /\ \E k \in DOMAIN output.value.operations :
         Len(output.value.operations[k].lineExpand.expandedCartItems) = 2

\* ------------------------------------------------------ the mapper, described
\* the bundle variants the running mapper maps
SeenBundleVariants == IF mapper.kind = "util" THEN m.finalVariants ELSE m.bundleVariants
\* the mapper found no variant of component A or none of component B for it
Unmatched(bv) ==
    CASE mapper.kind = "sync" ->
           \/ \A i \in DOMAIN m.comp1Variants : ~matchesByValues(bv, m.comp1Variants[i])
           \/ \A i \in DOMAIN m.comp2Variants : ~matchesByValues(bv, m.comp2Variants[i])
      [] mapper.kind = "list" ->
           \/ \A i \in DOMAIN m.comp1Variants : ~matchesByValuesList(bv, m.comp1Variants[i])
           \/ \A i \in DOMAIN m.comp2Variants : ~matchesByValuesList(bv, m.comp2Variants[i])
      [] mapper.kind = "write" ->
           \/ \A i \in DOMAIN m.comp1Variants : ~matchesByValuesNew(bv, m.comp1Variants[i])
           \/ \A i \in DOMAIN m.comp2Variants : ~matchesByValuesNew(bv, m.comp2Variants[i])
      [] OTHER ->
           \/ \A i \in DOMAIN m.comp1Variants :
                normalize(m.comp1Variants[i].selectedOptions[1].value)
                    # normalize(bv.selectedOptions[1].value)
           \/ \A i \in DOMAIN m.comp2Variants :
                normalize(m.comp2Variants[i].selectedOptions[1].value)
                    # normalize(bv.selectedOptions[1].value)
SomeUnmatched == \E i \in DOMAIN SeenBundleVariants : Unmatched(SeenBundleVariants[i])

\* C10: when some bundle variant has no match in component A or in component
\* B, the mapper fails as a whole and issues no metadata write, not even for
\* the variants that matched.
C10_NoPartialWrite ==
    SomeUnmatched =>
      /\ setCalls = <<>>
      /\ mapper.pc = "done" => ~result.ok
\* the same, of the mappers of the routes only
C10_RoutesNoPartialWrite ==
    (mapper.kind \in {"sync", "list", "write"} /\ SomeUnmatched) =>
      /\ setCalls = <<>>
      /\ mapper.pc = "done" => ~result.ok

\* ------------------------------------------------- the matchers, described
\* the normalization the probed matcher applies
NormOf(s) == IF probe.matcher = "edit" THEN norm(s) ELSE normPlain(s)
\* the bundle variant's value blob under that normalization
BlobOf(v) == NormOf(join(optionValues(v), <<" ">>))
\* every normalized option value of the component variant lies in the blob
AllContained ==
    \A i \in DOMAIN probe.componentVar.selectedOptions :
        includes(BlobOf(probe.bundleVar), NormOf(probe.componentVar.selectedOptions[i].value))

\* C11: for the matcher of creation, of edit and of manual sync alike, a
\* component variant matches a bundle variant exactly when every one of its
\* normalized option values is a substring of the bundle variant's value
\* blob; the blob being a substring of a component value makes no match.
C11_MatchIsContainment ==
    probe.matcher # "none" => (probe.matched <=> AllContained)
\* the same, of the matchers of the edit page and of the list page only
C11_EditAndListContainment ==
    probe.matcher \in {"edit", "list"} => (probe.matched <=> AllContained)

\* whether the running mapper's matcher takes v for bundle variant bv
MapperMatches(bv, v) ==
    CASE mapper.kind = "sync" -> matchesByValues(bv, v)
      [] mapper.kind = "list" -> matchesByValuesList(bv, v)
      [] mapper.kind = "write" -> matchesByValuesNew(bv, v)
      [] OTHER -> normalize(v.selectedOptions[1].value) = normalize(bv.selectedOptions[1].value)
\* the positions of the variants of a component that match bv
MatchesIn(variants, bv) == {i \in DOMAIN variants : MapperMatches(bv, variants[i])}
\* the id of the first of them in input order
FirstMatchIn(variants, bv) ==
    variants[CHOOSE i \in MatchesIn(variants, bv) : \A j \in MatchesIn(variants, bv) : i <= j].id
\* the bundle variant the mapper read that has this id
ReadBundleVariant(id) ==
    m.bundleVariants[CHOOSE i \in DOMAIN m.bundleVariants : m.bundleVariants[i].id = id]

\* C12: when several variants of a component match a bundle variant, the
\* mapper takes the first match in that component's input order, for
\* component A and for component B independently: the pair it writes is
\* [first match in A, first match in B].
C12_FirstMatchWins ==
    mapper.kind \in {"sync", "list"} =>
      \A k \in DOMAIN m.send :
        LET bv == ReadBundleVariant(m.send[k].ownerId) IN
        m.send[k].value = stringify(ArrV(<<StrV(FirstMatchIn(m.comp1Variants, bv)),
                                           StrV(FirstMatchIn(m.comp2Variants, bv))>>))
C12_Witness ==
    /\ mapper.kind = "list"
    /\ mapper.pc = "done"
    /\ result.ok
    /\ \E i \in DOMAIN m.bundleVariants :
         LET inA == MatchesIn(m.comp1Variants, m.bundleVariants[i])
             inB == MatchesIn(m.comp2Variants, m.bundleVariants[i])
         IN /\ inA = {1, 2}
            /\ inB = {1, 2}
            /\ m.comp1Variants[1].selectedOptions # m.comp2Variants[1].selectedOptions
            /\ metafields[m.bundleVariants[i].id] =
                 Text(stringify(ArrV(<<StrV(m.comp1Variants[1].id), StrV(m.comp2Variants[1].id)>>)))

\* the bundle or one of the two components has no variants to read
EmptyPrecondition == \E p \in ProductIds : Len(products[p].variants) = 0
\* the errors by which the mappers name a failed precondition
PreconditionErrors ==
    {"Bundle product has no variants.", "One of the component products has no variants.",
     "Bundle has no variants.", "A component product has no variants."}
\* the mapper has ended on its first step with such an error and no write
FailedFast ==
    /\ mapper.pc = "done"
    /\ ~result.ok
    /\ result.error \in PreconditionErrors
    /\ setCalls = <<>>

\* C13: if the bundle has no variants, or either component has none, the
\* variant mapper fails immediately with a descriptive error and issues no
\* metadata write.
C13_FailsFast ==
    (EmptyPrecondition /\ mapper.pc # "start") => FailedFast
\* the same, of the mappers of the routes only
C13_RoutesFailFast ==
    (mapper.kind \in {"sync", "list", "write"} /\ EmptyPrecondition /\ mapper.pc # "start")
        => FailedFast

\* the variants of the bundle product and of the two components
BundleNow == products[BundleProduct].variants
CompA == products[ComponentA].variants
CompB == products[ComponentB].variants
\* the mapper has ended, and every bundle variant has a match in component A
\* and a match in component B
EveryMatched ==
    /\ mapper.pc = "done"
    /\ ~EmptyPrecondition
    /\ \A i \in DOMAIN BundleNow :
         MatchesIn(CompA, BundleNow[i]) # {} /\ MatchesIn(CompB, BundleNow[i]) # {}
\* the Component Mapping write of bundle variant bv
MappingOf(bv) ==
    [ownerId |-> bv.id, namespace |-> "simple_bundler", key |-> "components", type |-> "json",
     value |-> stringify(ArrV(<<StrV(FirstMatchIn(CompA, bv)), StrV(FirstMatchIn(CompB, bv))>>))]
\* the bundle variants whose stored mapping is the one of this run
WrittenNow ==
    {i \in DOMAIN BundleNow :
        /\ BundleNow[i].id \in DOMAIN metafields
        /\ metafields[BundleNow[i].id] = Text(MappingOf(BundleNow[i]).value)}
OneBatchedWrite ==
    /\ Len(setCalls) = 1
    /\ setCalls[1].batch = [i \in DOMAIN BundleNow |-> MappingOf(BundleNow[i])]
    /\ WrittenNow \in {{}, DOMAIN BundleNow}

\* C14: when every bundle variant matches, the mapper emits exactly one
\* Component Mapping write per bundle variant (owner = the bundle variant,
\* value = the pair of matched component variant ids), all of them in one
\* batched write call, so that the variants are written all or none.
C14_OneBatchedWrite == EveryMatched => OneBatchedWrite
\* the same, of the mappers of the routes only
C14_RoutesOneBatchedWrite ==
    (mapper.kind \in {"sync", "list", "write"} /\ EveryMatched) => OneBatchedWrite

\* the mapper has ended on a bundle of one variant and two components of one
\* variant each (syncBundleVariants always starts on a bundle of one variant)
SingleVariantCase ==
    /\ mapper.pc = "done"
    /\ Len(CompA) = 1
    /\ Len(CompB) = 1
    /\ mapper.kind # "util" => Len(BundleNow) = 1
\* exactly one mapping was emitted: the bundle's variant to both sole variants
SoleMapping ==
    /\ Len(setCalls) = 1
    /\ setCalls[1].batch = <<[ownerId |-> VariantId(BundleProduct, 1),
                              namespace |-> "simple_bundler", key |-> "components",
                              type |-> "json",
                              value |-> stringify(ArrV(<<StrV(CompA[1].id), StrV(CompB[1].id)>>))]>>

\* C15: given a bundle of exactly one variant and two components of exactly
\* one variant each, the mapper produces exactly one mapping, of the bundle
\* variant to both components' sole variants, whatever the option-value text
\* of the three variants is: no value matching is applied.
C15_SingleVariantsMapped == SingleVariantCase => SoleMapping
\* the same, when the three variants are the default variants of their
\* products, whose option values are all "Default Title"
C15_DefaultVariantsMapped ==
    (/\ SingleVariantCase
     /\ CompA = DefaultProduct(ComponentA).variants
     /\ CompB = DefaultProduct(ComponentB).variants
     /\ mapper.kind # "util" => BundleNow = DefaultProduct(BundleProduct).variants)
        => SoleMapping

\* the value blob of a bundle variant as the running mapper computes it
MapperBlob(bv) ==
    CASE mapper.kind = "sync" -> valuesBlob(bv)
      [] mapper.kind = "list" -> valuesBlobList(bv)
      [] OTHER -> variantValueBlob(bv)
\* the identifiers of the unmatched bundle variants, in bundle input order
UnmappedIdentifiers ==
    LET unmapped == SelectSeq(m.bundleVariants, Unmatched)
    IN [i \in DOMAIN unmapped |->
          IF MapperBlob(unmapped[i]) = <<>> THEN unmapped[i].id ELSE MapperBlob(unmapped[i])]

\* C16: on a partial match failure the mapper's error reports exactly the
\* unmapped bundle variants: one identifier per bundle variant without match
\* in component A or in component B, in bundle input order, the identifier
\* being the variant's value blob, or its id when the blob is empty, and no
\* identifier of a matched variant.
C16_ReportsUnmapped ==
    (/\ mapper.kind \in {"sync", "list", "write"}
     /\ mapper.pc = "done"
     /\ ~EmptyPrecondition
     /\ SomeUnmatched)
        => /\ ~result.ok
           /\ result.error = "Could not map these bundle variant values to component variants: "
           /\ result.detail = join(UnmappedIdentifiers, <<",", " ">>)
C16_Witness ==
    /\ mapper.kind = "sync"
    /\ mapper.pc = "done"
    /\ Len(m.bundleVariants) = 2
    /\ Unmatched(m.bundleVariants[1])
    /\ valuesBlob(m.bundleVariants[1]) = <<>>
    /\ ~Unmatched(m.bundleVariants[2])
    /\ result.detail = m.bundleVariants[1].id

\* C17: when the batched metadata write returns platform-reported field
\* errors, the mapper returns a failure carrying those error messages
\* unchanged, and does not retry: one mapper invocation issues the write
\* call exactly once.
C17_ErrorsVerbatimNoRetry ==
    mapper.kind \in {"sync", "list", "write"} =>
      /\ Len(setCalls) <= 1
      /\ mapper.pc = "set" => setCalls = <<>>
      /\ (mapper.pc = "done" /\ setCalls # <<>> /\ setCalls[1].userErrors # <<>>) =>
           /\ ~result.ok
           /\ result.error = ""
           /\ result.detail = join([i \in DOMAIN setCalls[1].userErrors |->
                                       setCalls[1].userErrors[i].message], <<",", " ">>)
C17_Witness ==
    /\ mapper.kind = "sync"
    /\ mapper.pc = "done"
    /\ Len(setCalls) = 1
    /\ Len(setCalls[1].userErrors) = 2
    /\ ~result.ok
    /\ metafields = Stale(products[BundleProduct])

\* ------------------------------------------------ the requests, described
\* the request was answered with a failure of the variant mapper: a failed
\* precondition or unmapped bundle variants
MapperFailed(r) ==
    /\ r.pc = "responded"
    /\ ~r.response.ok
    /\ ~r.response.cause.ok
    /\ r.response.cause.error \in
         PreconditionErrors
           \cup {"Could not map these bundle variant values to component variants: "}

\* C18: when the variant mapper fails (failed precondition or unmapped
\* variants) inside the sync or the save flow, the request makes no partial
\* state change: the bundle's stored title, component list and
\* lastValidatedAt, and the platform product title, are as before the request.
C18_NoPartialChange ==
    (req.intent \in {"sync", "save"} /\ ~req.overlapped /\ MapperFailed(req))
        => req.after = req.before
\* the same, of the sync flow only
C18_SyncNoPartialChange ==
    (req.intent = "sync" /\ ~req.overlapped /\ MapperFailed(req))
        => req.after = req.before

\* the ids a product's variants can have
VariantIdsOf(productId) == {VariantId(productId, i) : i \in 1..9}
\* the Component Mapping stored on a variant, parsed
StoredMapping(id) == JSONparse(metafields[id].text).value
\* the mapping names a variant of component A, then a variant of component B
RefersTo(mapping, productA, productB) ==
    /\ mapping.k = "array"
    /\ Len(mapping.items) = 2
    /\ mapping.items[1].s \in VariantIdsOf(productA)
    /\ mapping.items[2].s \in VariantIdsOf(productB)

\* C19: in every state reachable by create, save and sync requests, every
\* Component Mapping stored on a bundle variant references one variant of the
\* bundle's registered component at position 1 and one variant of its
\* registered component at position 2, in that order, and never a product
\* that is no longer a registered component of the bundle.
C19_MappingsOfRegisteredComponents ==
    db.exists =>
      \A id \in DOMAIN metafields :
        RefersTo(StoredMapping(id), db.components[1], db.components[2])
\* the same, of the states in which no request is in flight
C19_AtRest ==
    (db.exists /\ ~InFlight(req) /\ ~OtherInFlight) =>
      \A id \in DOMAIN metafields :
        RefersTo(StoredMapping(id), db.components[1], db.components[2])

\* ---- two syncs of one bundle
\* two requests ran concurrently and both have answered; every write they
\* issued was stored
Settled ==
    /\ req.pc = "responded"
    /\ req.overlapped
    /\ ~OtherInFlight
    /\ setCalls # <<>>
    /\ \A k \in DOMAIN setCalls : setCalls[k].accepted
\* the request whose write happened last
LastWriter == setCalls[Len(setCalls)].by
\* the complete output of request x: the mapping it sent for each variant
SentBy(x) ==
    UNION {{setCalls[k].batch[j] : j \in DOMAIN setCalls[k].batch} :
              k \in {c \in DOMAIN setCalls : setCalls[c].by = x}}
\* what is stored on the bundle's variants is the output of request x and
\* nothing that another request wrote
StoredIsOutputOf(x) ==
    \A i \in DOMAIN BundleNow :
      LET id == BundleNow[i].id
          mine == {w \in SentBy(x) : w.ownerId = id}
          theirs == UNION {{w \in SentBy(y) : w.ownerId = id} :
                              y \in {setCalls[k].by : k \in DOMAIN setCalls} \ {x}}
      IN IF mine # {}
         THEN id \in DOMAIN metafields /\ \E w \in mine : metafields[id] = Text(w.value)
         ELSE theirs = {}
\* the mapping of each bundle variant as one sync of the edit page computes it
SingleSyncOutput(bv) ==
    LET Match(v) == matchesByValues(bv, v)
    IN stringify(ArrV(<<StrV(find(products[db.components[1]].variants, Match)),
                        StrV(find(products[db.components[2]].variants, Match))>>))

\* C20: when two syncs of the same bundle run concurrently, under every
\* interleaving of their reads and writes the later write wins: the mappings
\* finally stored on the bundle's variants are the complete output of the
\* sync whose write happened last, never a mixture of the two outputs, and
\* when product and variant data did not change they are the output of a
\* single sync.
C20_LaterWriteWins ==
    Settled =>
      /\ StoredIsOutputOf(LastWriter)
      /\ env.edits = 0 =>
           \A i \in DOMAIN BundleNow :
             metafields[BundleNow[i].id] = Text(SingleSyncOutput(BundleNow[i]))
\* the same, when both syncs are sync requests of the edit page
C20_BatchedLaterWriteWins ==
    (Settled /\ \A k \in DOMAIN setCalls : setCalls[k].kind = "sync") =>
      /\ StoredIsOutputOf(LastWriter)
      /\ env.edits = 0 =>
           \A i \in DOMAIN BundleNow :
             metafields[BundleNow[i].id] = Text(SingleSyncOutput(BundleNow[i]))

\* ---- the reads of a mapper
\* what the mapper computes from the products as they are
FromProducts ==
    Computed(mapper.kind, fetchVariants(products, BundleProduct),
             fetchVariants(products, m.componentProductIds[1]),
             fetchVariants(products, m.componentProductIds[2]))

\* C21: the three variant reads of a mapper (bundle, component A, component
\* B) are joined before any computation: its result is the same for every
\* order in which the reads complete, and the metadata write is issued only
\* after all three reads have completed, never between them.
C21_ReadsJoined ==
    /\ mapper.pc = "reading" => (setCalls = <<>> /\ m.send = <<>> /\ result = NoResult)
    /\ mapper.pc \in {"set", "done"} =>
         /\ Len(m.arrived) = 3
         /\ m.send = FromProducts.send
         /\ FromProducts.send = <<>> => result = FromProducts.result
    /\ setCalls # <<>> =>
         /\ Len(m.arrived) = 3
         /\ Len(setCalls) = 1
         /\ setCalls[1].batch = FromProducts.send
\* the bundle's read completed last and the mapper wrote its batch
C21_Witness ==
    /\ mapper.pc = "done"
    /\ Len(m.arrived) = 3
    /\ m.arrived[3] = 1
    /\ Len(setCalls) = 1
    /\ setCalls[1].accepted
    /\ Len(setCalls[1].batch) = 2

\* ---- the norms
\* the canonical key: zero-width characters removed, letters lowercased,
\* each maximal run of characters outside [a-z0-9] one space, trimmed
CanonicalKey(s) == trim(replaceNonAlnumRuns(remove(toLowerCase(s), ZeroWidth)))

\* C22: every norm used for matching computes the same canonical key for
\* every string: zero-width characters are removed without acting as
\* separators, letters are lowercased, each maximal run of characters
\* outside [a-z0-9] becomes one space, leading and trailing spaces are
\* trimmed; and norm is idempotent.
C22_NormsCanonical ==
    probe.matcher # "none" =>
      /\ probe.key = CanonicalKey(probe.raw)
      /\ probe.again = probe.key
\* the norm of the edit page computes the canonical key, and every norm is
\* idempotent
C22_EditCanonicalAllIdempotent ==
    /\ probe.matcher = "edit" => probe.key = CanonicalKey(probe.raw)
    /\ probe.matcher # "none" => probe.again = probe.key

\* ---- from the mapper to the checkout
\* the ids of the component variants the mapper matched to the bundle
\* variant of this id, component A first
MatchedPair(ownerId) ==
    <<FirstMatchIn(m.comp1Variants, ReadBundleVariant(ownerId)),
      FirstMatchIn(m.comp2Variants, ReadBundleVariant(ownerId))>>
MerchandiseIds(op) ==
    [i \in DOMAIN op.lineExpand.expandedCartItems |->
        op.lineExpand.expandedCartItems[i].merchandiseId]

DeletedByLoader == DOMAIN page.before \ DOMAIN table
Ghost(row) == ~products[row.parentProductId].exists

\* C24: the list loader deletes a Bundle record exactly when the platform
\* reports that its parent product no longer exists: after the loader no
\* bundle of the session's shop with a missing parent product remains, and
\* no bundle whose parent product exists, and no bundle of another shop, is
\* deleted.
C24_GhostsDeletedOnly ==
    (page.kind = "clean" /\ page.pc = "done") =>
      /\ \A i \in DOMAIN table : table[i].shop = page.shop => ~Ghost(table[i])
      /\ \A i \in DeletedByLoader :
           /\ page.before[i].shop = page.shop
           /\ Ghost(page.before[i])
      /\ \A i \in DOMAIN table : table[i] = page.before[i]
      /\ \A k \in DOMAIN page.rows : page.rows[k].id \in DOMAIN table
\* the loader deleted a ghost of the session's shop, kept a bundle of that
\* shop whose product exists, and kept a ghost of the other shop
C24_Witness ==
    /\ page.kind = "clean"
    /\ page.pc = "done"
    /\ DeletedByLoader # {}
    /\ \E i \in DOMAIN table : table[i].shop = page.shop /\ ~Ghost(table[i])
    /\ \E i \in DOMAIN table : table[i].shop # page.shop /\ Ghost(table[i])

\* ---- the creation flow
\* a creation request that was given a parent product by the platform
Creating(r) == r.intent \in {"create", "createUtil"} /\ r.pc # "idle"
\* the creation request in service, or the one that waits
CreationFailed(r) == Creating(r) /\ r.pc = "responded" /\ ~r.response.ok

\* C25: in the creation flow the Bundle record is persisted only after the
\* parent product was created and the component mapping was written
\* successfully: if product creation fails or the mapping fails, no Bundle
\* record exists after the request.
C25_RecordOnlyAfterMapping ==
    /\ CreationFailed(req) => ~db.exists
    /\ (Creating(req) /\ req.pc # "responded" /\ db.exists) => (mapper.pc = "done" /\ result.ok)
\* the same, for the creation page app.bundles.new.tsx
C25_NewPageRecordOnlyAfterMapping ==
    req.intent = "create" =>
      /\ CreationFailed(req) => ~db.exists
      /\ (req.pc # "responded") => ~db.exists
      /\ (req.pc = "responded" /\ req.response.ok) =>
           (db.exists /\ req.response.cause.ok /\ products[BundleProduct].exists)

\* ---- the default variant in the creation flow
\* the mapper of the creation page has ended on a bundle product that has
\* its one default variant, and on components that have variants
DefaultBundleCase ==
    /\ mapper.kind = "write"
    /\ mapper.pc = "done"
    /\ BundleNow = DefaultProduct(BundleProduct).variants
    /\ Len(CompA) > 0
    /\ Len(CompB) > 0
\* the default variant was sent with the first variant of each component
MappedToFirsts ==
    /\ Len(setCalls) = 1
    /\ Len(setCalls[1].batch) = 1
    /\ setCalls[1].batch[1].ownerId = BundleNow[1].id
    /\ parseVariantIdList(Text(setCalls[1].batch[1].value)).ids = <<CompA[1].id, CompB[1].id>>

\* C26: in the creation flow, if the bundle product has only its single
\* default variant, the mapper maps that variant to the first variant of
\* each component product, whatever option values the components' variants
\* have.
C26_DefaultMapsToFirsts == DefaultBundleCase => MappedToFirsts
\* the same, when the first variant of each component is a default variant
C26_DefaultMapsToDefaults ==
    (/\ DefaultBundleCase
     /\ CompA = DefaultProduct(ComponentA).variants
     /\ CompB = DefaultProduct(ComponentB).variants) => MappedToFirsts

\* ---- the delete requests
\* a delete request has been answered
Deleting == page.kind \in {"index", "listPage", "plainList", "new"} /\ page.pc = "done"
\* the request named a bundle of another shop than the session's
ForeignBundle == page.id \in DOMAIN page.before /\ page.before[page.id].shop # page.shop
RecordDeleted == page.id \in DOMAIN page.before /\ page.id \notin DOMAIN table

\* C27: a delete request removes a Bundle record (and triggers the deletion
\* of its parent product) only if the bundle belongs to the shop of the
\* authenticated session; a request naming a bundle of another shop deletes
\* nothing and leaves all stored state unchanged.
C27_OwnShopOnly ==
    Deleting =>
      /\ RecordDeleted => page.before[page.id].shop = page.shop
      /\ ForeignBundle => (table = page.before /\ products = page.catalog)
      /\ \A i \in DOMAIN page.before \ {page.id} : i \in DOMAIN table /\ table[i] = page.before[i]
\* the same, of the handlers that look the bundle up by id and shop
C27_ScopedLookupsOwnShopOnly ==
    (Deleting /\ page.kind # "plainList") =>
      /\ RecordDeleted => page.before[page.id].shop = page.shop
      /\ ForeignBundle => (table = page.before /\ products = page.catalog)
      /\ \A i \in DOMAIN page.before \ {page.id} : i \in DOMAIN table /\ table[i] = page.before[i]

\* productDelete was called for the request, and answered
Attempted == Deleting /\ page.answer.kind # "none"
\* the platform reported an error other than "the product is missing"
RealErrorReported ==
    /\ page.answer.kind = "userErrors"
    /\ \E k \in DOMAIN page.answer.userErrors : page.answer.userErrors[k].cause # "missing"
OnlyMissingReported ==
    /\ page.answer.kind = "userErrors"
    /\ \A k \in DOMAIN page.answer.userErrors : page.answer.userErrors[k].cause = "missing"
SingleCause ==
    \A j, k \in DOMAIN page.answer.userErrors :
       page.answer.userErrors[j].cause = page.answer.userErrors[k].cause

\* C28: in the delete flow the Bundle record is kept whenever the platform's
\* product deletion reports a real error (anything other than the product
\* being missing); it is deleted only when the deletion succeeded, reported
\* only product-missing errors, or the call itself threw.
C28_KeptOnRealError ==
    Attempted =>
      /\ RealErrorReported => ~RecordDeleted
      /\ RecordDeleted => (page.answer.kind \in {"deleted", "threw"} \/ OnlyMissingReported)
\* the same, of the answers whose errors all have one cause
C28_KeptOnSingleRealError ==
    (Attempted /\ SingleCause) =>
      /\ RealErrorReported => ~RecordDeleted
      /\ RecordDeleted => (page.answer.kind \in {"deleted", "threw"} \/ OnlyMissingReported)

\* ---- the component rows of a bundle
\* rows at positions 1 and 2, naming two different products
TwoComponents(row) ==
    /\ DOMAIN row.components = {1, 2}
    /\ row.components[1] # <<>>
    /\ row.components[2] # <<>>
    /\ row.components[1] # row.components[2]
\* a form that lacks a component or names one product twice
BadComponents(form) ==
    form.productA = <<>> \/ form.productB = <<>> \/ form.productA = form.productB

\* C29: after any sequence of create and save requests every Bundle record
\* has exactly two component rows, at positions 1 and 2, naming two different
\* products; a request with a missing component or with the same product
\* given twice is rejected before anything is created or changed.
C29_TwoDistinctComponents ==
    [][/\ db'.exists => TwoComponents(db')
       /\ (/\ env'.requests # env.requests
           /\ req'.intent \in {"save", "create", "createUtil"}
           /\ BadComponents(req'.form)) =>
            /\ req'.pc = "responded"
            /\ ~req'.response.ok
            /\ UNCHANGED <<db, titles, products, metafields>>]_vars
\* a bundle exists and a request with bad components has been rejected
C29_Witness ==
    /\ db.exists
    /\ req.pc = "responded"
    /\ req.intent \in {"save", "create", "createUtil"}
    /\ BadComponents(req.form)
    /\ ~req.response.ok
\* a record made by a creation request has been changed by a save
C29_SavedWitness ==
    /\ db.exists
    /\ req.pc = "responded"
    /\ req.intent = "save"
    /\ req.response.ok
    /\ db.components = <<req.form.productA, req.form.productB>>

\* ---- the health column of the list
\* the loader of the list page has returned its rows
HealthLoaded == page.kind = "health" /\ page.pc = "done"
\* the product has a variant and every variant carries the mapping metafield
FullyMapped(pid) ==
    /\ products[pid].exists
    /\ Len(products[pid].variants) >= 1
    /\ \A k \in DOMAIN products[pid].variants : products[pid].variants[k].id \in DOMAIN metafields

C30_LackingWitness ==
    /\ HealthLoaded
    /\ \E k \in DOMAIN page.rows :
         LET p == products[page.bundles[k].parentProductId] IN
         /\ page.rows[k].health = "needs_attention"
         /\ page.bundles[k].parentProductId \notin page.answer
         /\ \E i, j \in DOMAIN p.variants :
              p.variants[i].id \in DOMAIN metafields /\ p.variants[j].id \notin DOMAIN metafields

====
